---- MODULE Spec2Model ----
(***************************************************************************)
(* Capture-to-PDF pipeline of seyph/stagehand.                             *)
(*                                                                         *)
(*   Spec      the request handler main() of app/api/stagehand/main.ts     *)
(*             together with capturePageInput() and buildMultiPagePdf()    *)
(*             of utils/pdf.ts: the retry loop, the try/finally blocks,    *)
(*             the browser's open pages and the composed document.         *)
(*   SpecWrap  wrapText() of utils/pdf.ts, one outer-loop iteration per    *)
(*             step, over bounded texts, widths and measure functions.     *)
(*   SpecOptions, SpecLayout, SpecPng, SpecCss, SpecGradient, SpecLink     *)
(*             the functions modelled on their own: the options main()     *)
(*             resolves for an item, computeLayout() with the bottom       *)
(*             block, vibrantColorFromPng(), cssRgbToPdfLib(),             *)
(*             fixGradientTransparency() and addLinkAnnotation().          *)
(***************************************************************************)
EXTENDS Integers, Sequences, FiniteSets, TLC

\* ------------------------------------------------------------------------
\* Bounds of the model
\* ------------------------------------------------------------------------
MaxItems == 2
MaxPages == 3
MaxLen == 5
MaxWidth == 3

\* ------------------------------------------------------------------------
\* Program constants
\* ------------------------------------------------------------------------
MAX_ATTEMPTS == 3

\* a URL is the sequence of its characters; both are accepted by z.string().url()
Urls == {<<"a", ":", "'">>, <<"b", ":", "\\">>}
MainSelector == "#main"

VARIABLES
  \* main()
  items,        \* body.items: the request's items, in order
  pc,           \* position of main()
  idx,          \* 1-based index of the item of the for-of loop (0 before it)
  attempt,      \* the attempt counter of the inner for loop
  captured,     \* let captured
  lastError,    \* let lastError
  pageInputs,   \* const pageInputs: PageInput[]
  pending,      \* the exception thrown inside the try block of main, if any
  result,       \* how main() ended: returned value or thrown error
  \* the browser
  connected,    \* puppeteer.connect() resolved
  pages,        \* browser.pages(): the open pages, in order
  closeCalls,   \* number of browser.close() calls
  closeFailed,  \* browser.close() rejected
  \* capturePageInput()
  cpc,          \* position of the call in flight ("idle" when none)
  page,         \* const [page]: a page id, or 0 for undefined
  dom,          \* state of the main selector's element in the loaded page
  cerr,         \* the exception thrown by the body of the call, if any
  cval,         \* the PageInput the body returned
  cres,         \* what the call delivered to its caller
  pageCloseCalled, \* page.close() was called by the call in flight
  \* buildMultiPagePdf() and put()
  pdfPages,     \* pages of pdfDoc, in order
  annots,       \* per page of pdfDoc, the Annots array of its node
  buildIdx,     \* number of inputs consumed by the for-of loop of the build
  buildCalled,  \* buildMultiPagePdf was invoked
  uploaded,     \* the document handed to put(), <<"none">> before
  \* history of the calls of capturePageInput
  inFlight,     \* calls started and not yet finished
  itemCalls,    \* per item: calls made, calls that succeeded
  lastCallErr,  \* the error thrown by the last finished call (None if it returned)
  \* runStagehand()
  session,      \* the Stagehand session: "open" once init() resolved, "closed"
  rpc,          \* position of runStagehand: awaiting main, returned or threw
  \* wrapText()
  text, maxWidth, measureId, urlMode, start, lines, wpc,
  \* the options main() resolves for an item
  body,         \* the request body: its global selectors and document settings
  item,         \* one item of body.items
  options,      \* const options
  opc,
  \* computeLayout()
  layArgs,      \* the arguments: rect, url, marginOpt, paddingOpt
  layout,       \* the Layout returned
  bottomBlock,  \* what buildPdfPage puts in the bottom strip of the page
  lpc,
  \* vibrantColorFromPng()
  pngBuffer,    \* the bytes of the argument
  offset,       \* let offset
  ihdr,         \* let width, height, bitDepth, colorType
  idatChunks,   \* const idatChunks
  raw,          \* the inflated scanlines
  pixels,       \* the reconstructed pixels
  buckets,      \* the quantized colors and their counts, in insertion order
  pngResult,    \* the RGB returned or the error thrown
  ppc,
  \* cssRgbToPdfLib()
  color,        \* the argument
  cssResult,    \* the color returned
  csspc,
  \* fixGradientTransparency(), for one element
  bg,           \* computed.backgroundImage
  styleBg,      \* el.style.backgroundImage
  gpc,
  \* addLinkAnnotation(), for one page
  linkUrl,      \* the argument url
  linkAnnots,   \* the Annots array of the page's node
  lkpc

mainVars == <<items, pc, idx, attempt, captured, lastError, pageInputs, pending, result>>
browserVars == <<connected, pages, closeCalls, closeFailed>>
capVars == <<cpc, page, dom, cerr, cval, cres, pageCloseCalled>>
buildVars == <<pdfPages, annots, buildIdx, buildCalled, uploaded>>
histVars == <<inFlight, itemCalls, lastCallErr>>
runVars == <<session, rpc>>
wrapVars == <<text, maxWidth, measureId, urlMode, start, lines, wpc>>
optVars == <<body, item, options, opc>>
layoutVars == <<layArgs, layout, bottomBlock, lpc>>
pngVars == <<pngBuffer, offset, ihdr, idatChunks, raw, pixels, buckets, pngResult, ppc>>
cssVars == <<color, cssResult, csspc>>
gradVars == <<bg, styleBg, gpc>>
linkVars == <<linkUrl, linkAnnots, lkpc>>
requestVars == <<mainVars, browserVars, capVars, buildVars, histVars, runVars>>
pureVars == <<optVars, layoutVars, pngVars, cssVars, gradVars, linkVars>>
vars == <<requestVars, wrapVars, pureVars>>

\* ------------------------------------------------------------------------
\* Errors: an Error object is its name and its message (a list of words)
\* ------------------------------------------------------------------------
None == [name |-> "undefined", message |-> <<>>]

MkError(name, message) == [name |-> name, message |-> message]

SelectorNotFoundError(selector, url) ==
  [name |-> "SelectorNotFoundError",
   message |-> <<"Selector", selector, "not found on", url>>]

TimeoutError == MkError("TimeoutError", <<"Waiting for selector failed">>)
NavigationError == MkError("Error", <<"net::ERR_FAILED">>)
ProtocolError == MkError("ProtocolError", <<"Target closed">>)
TypeErrorOf(prop) == MkError("TypeError", <<"Cannot read properties of undefined", prop>>)
ConnectError == MkError("Error", <<"connect failed">>)
BuildError == MkError("Error", <<"Failed to parse PDF document">>)
PutError == MkError("BlobError", <<"upload failed">>)

NoResult == [kind |-> "none", err |-> None, value |-> [url |-> <<>>]]
Returned(v) == [kind |-> "ok", err |-> None, value |-> v]
Threw(e) == [kind |-> "err", err |-> e, value |-> [url |-> <<>>]]

\* ------------------------------------------------------------------------
\* Pure helpers of main() and capturePageInput()
\* ------------------------------------------------------------------------

\* err instanceof SelectorNotFoundError
IsSelectorNotFound_NeverFatal(err) == FALSE
IsSelectorNotFound(err) == err.name = "SelectorNotFoundError"

\* lastError = err
CatchUpdate_KeepFirst(last, err) == IF last = None THEN err ELSE last
CatchUpdate(last, err) == err

\* lastError instanceof Error ? lastError.message : String(lastError)
MessageOf(e) == e.message

\* new Error(`Failed to capture ${item.url} after ${MAX_ATTEMPTS} attempts: ${message}`)
AggregateError(url, last) ==
  MkError("Error",
          <<"Failed to capture", url, "after", ToString(MAX_ATTEMPTS), "attempts:">>
            \o MessageOf(last))

\* if (!captured) throw ...: where main goes after the attempts of an item
AfterAttemptsThrows_Never(cap) == FALSE
AfterAttemptsThrows(cap) == ~cap

\* the attempt loop's condition: attempt <= MAX_ATTEMPTS
MayAttempt_OneMore(a) == a <= MAX_ATTEMPTS + 1
MayAttempt(a) == a <= MAX_ATTEMPTS

\* browser.close().catch(() => {}): the exception that leaves the finally block
AfterBrowserClose_Masks(pend, closeErr) == IF closeErr = None THEN pend ELSE closeErr
AfterBrowserClose_SwallowsAll(pend, closeErr) == None
AfterBrowserClose(pend, closeErr) == pend

\* const [page] = await browser.pages(): the first open page, undefined (0) if none
FirstPage(ps) == IF ps = <<>> THEN 0 ELSE Head(ps)

\* the open pages once page p is closed
WithoutPage(ps, p) == SelectSeq(ps, LAMBDA q : q # p)

\* return { rawPdf, rect, dominantColor, url, margin, padding }
PageInputOf(url) == [url |-> url]

\* pageInputs.push(await capturePageInput(...))
PushInput_Front(inputs, v) == <<v>> \o inputs
PushInput(inputs, v) == Append(inputs, v)

\* pdfDoc.addPage(...) in buildPdfPage: the page of an input is appended
AddPage(doc, input) == Append(doc, input.url)

\* str.replace(/c/g, by): every occurrence of the character c replaced
RECURSIVE ReplaceAll(_, _, _)
ReplaceAll(str, c, by) ==
  IF str = <<>> THEN <<>>
  ELSE (IF Head(str) = c THEN by ELSE <<Head(str)>>) \o ReplaceAll(Tail(str), c, by)

\* const escapedUrl = url.replace(/\\/g, "\\\\").replace(/'/g, "\\'")
EscapedUrl_QuotesFirst(url) ==
  ReplaceAll(ReplaceAll(url, "'", <<"\\", "'">>), "\\", <<"\\", "\\">>)
EscapedUrl(url) ==
  ReplaceAll(ReplaceAll(url, "\\", <<"\\", "\\">>), "'", <<"\\", "'">>)

\* `app.launchURL('${escapedUrl}', true);`
LaunchScript(escapedUrl) ==
  <<"a", "p", "p", ".", "l", "a", "u", "n", "c", "h", "U", "R", "L", "(", "'">>
    \o escapedUrl \o <<"'", ",", " ", "t", "r", "u", "e", ")", ";">>

\* addLinkAnnotation: the Annots array set on the page's node holds the one
\* Link annotation whose action is the JavaScript of the url (the Rect and
\* the Border of the annotation are left out here)
AddLinkAnnotation_Unattached(url) == <<>>
AddLinkAnnotation(url) ==
  <<[Subtype |-> "Link", S |-> "JavaScript", JS |-> LaunchScript(EscapedUrl(url))]>>

\* ------------------------------------------------------------------------
\* Initial state of a request
\* ------------------------------------------------------------------------
ItemSeqs == UNION { [1..n -> [url : Urls]] : n \in 1..MaxItems }

WrapIdle ==
  /\ text = <<>> /\ maxWidth = 0 /\ measureId = 1 /\ urlMode = FALSE
  /\ start = 0 /\ lines = <<>> /\ wpc = "off"

\* the state of the functions modelled on their own (option resolution,
\* computeLayout, vibrantColorFromPng, cssRgbToPdfLib, fixGradientTransparency,
\* addLinkAnnotation)
\* while they are not running; active names the one that is
PureIdle(active) ==
  /\ active = "options" \/ (body = <<>> /\ item = <<>> /\ options = <<>> /\ opc = "off")
  /\ active = "layout" \/ (layArgs = <<>> /\ layout = <<>> /\ bottomBlock = <<>> /\ lpc = "off")
  /\ active = "png" \/
       (/\ pngBuffer = <<>> /\ offset = 0 /\ ihdr = <<>> /\ idatChunks = <<>>
        /\ raw = <<>> /\ pixels = <<>> /\ buckets = <<>> /\ pngResult = <<>> /\ ppc = "off")
  /\ active = "css" \/ (color = <<>> /\ cssResult = <<>> /\ csspc = "off")
  /\ active = "gradient" \/ (bg = <<>> /\ styleBg = <<>> /\ gpc = "off")
  /\ active = "link" \/ (linkUrl = <<>> /\ linkAnnots = <<>> /\ lkpc = "off")

\* the state of a request before main() runs, but for the items, main's
\* position and the browser's pages
RequestFresh ==
  /\ idx = 0
  /\ attempt = 0
  /\ captured = FALSE
  /\ lastError = None
  /\ pageInputs = <<>>
  /\ pending = None
  /\ result = NoResult
  /\ connected = FALSE
  /\ closeCalls = 0
  /\ closeFailed = FALSE
  /\ cpc = "idle"
  /\ page = 0
  /\ dom = "unloaded"
  /\ cerr = None
  /\ cval = PageInputOf(<<>>)
  /\ cres = NoResult
  /\ pageCloseCalled = FALSE
  /\ pdfPages = <<>>
  /\ annots = <<>>
  /\ buildIdx = 0
  /\ buildCalled = FALSE
  /\ uploaded = <<"none">>
  /\ inFlight = 0
  /\ itemCalls = [i \in 1..Len(items) |-> [calls |-> 0, ok |-> 0]]
  /\ lastCallErr = None

\* no request is running
RequestIdle ==
  /\ items = <<>>
  /\ pc = "off"
  /\ pages = <<>>
  /\ session = "none"
  /\ rpc = "off"
  /\ RequestFresh

Init ==
  /\ items \in ItemSeqs
  /\ pc = "connect"
  /\ session = "open"
  /\ rpc = "main"
  /\ \E n \in 1..MaxPages : pages = [i \in 1..n |-> i]
  /\ RequestFresh
  /\ WrapIdle
  /\ PureIdle("none")

\* ------------------------------------------------------------------------
\* main()
\* ------------------------------------------------------------------------

\* const browser = await puppeteer.connect(...): resolves
Connect ==
  /\ pc = "connect"
  /\ connected' = TRUE
  /\ pc' = "forItem"
  /\ UNCHANGED <<items, idx, attempt, captured, lastError, pageInputs, pending, result>>
  /\ UNCHANGED <<pages, closeCalls, closeFailed>>
  /\ UNCHANGED <<capVars, buildVars, histVars, runVars, wrapVars, pureVars>>

\* puppeteer.connect rejects: main throws before its try block
ConnectFails ==
  /\ pc = "connect"
  /\ result' = Threw(ConnectError)
  /\ pc' = "threw"
  /\ UNCHANGED <<items, idx, attempt, captured, lastError, pageInputs, pending>>
  /\ UNCHANGED <<browserVars, capVars, buildVars, histVars, runVars, wrapVars, pureVars>>

\* for (const item of body.items) { options; lastError; captured = false; attempt = 1
ForItem ==
  /\ pc = "forItem"
  /\ idx < Len(items)
  /\ idx' = idx + 1
  /\ lastError' = None
  /\ captured' = FALSE
  /\ attempt' = 1
  /\ pc' = "attempt"
  /\ UNCHANGED <<items, pageInputs, pending, result>>
  /\ UNCHANGED <<browserVars, capVars, buildVars, histVars, runVars, wrapVars, pureVars>>

\* the for-of loop is over: the try block completes normally
ItemsDone ==
  /\ pc = "forItem"
  /\ idx = Len(items)
  /\ pc' = "finally"
  /\ UNCHANGED <<items, idx, attempt, captured, lastError, pageInputs, pending, result>>
  /\ UNCHANGED <<browserVars, capVars, buildVars, histVars, runVars, wrapVars, pureVars>>

\* attempt <= MAX_ATTEMPTS: capturePageInput(browser, item.url, options) is called
StartAttempt ==
  /\ pc = "attempt"
  /\ MayAttempt(attempt)
  /\ pc' = "awaitCapture"
  /\ cpc' = "pages"
  /\ page' = 0
  /\ dom' = "unloaded"
  /\ cerr' = None
  /\ cval' = PageInputOf(<<>>)
  /\ cres' = NoResult
  /\ pageCloseCalled' = FALSE
  /\ inFlight' = inFlight + 1
  /\ itemCalls' = [itemCalls EXCEPT ![idx].calls = @ + 1]
  /\ UNCHANGED lastCallErr
  /\ UNCHANGED <<items, idx, attempt, captured, lastError, pageInputs, pending, result>>
  /\ UNCHANGED <<browserVars, buildVars, runVars, wrapVars, pureVars>>

\* attempt > MAX_ATTEMPTS: the attempt loop ends without a break
AttemptsExhausted ==
  /\ pc = "attempt"
  /\ ~MayAttempt(attempt)
  /\ pc' = "afterAttempts"
  /\ UNCHANGED <<items, idx, attempt, captured, lastError, pageInputs, pending, result>>
  /\ UNCHANGED <<browserVars, capVars, buildVars, histVars, runVars, wrapVars, pureVars>>

\* the awaited call resolved: pageInputs.push(...); captured = true; break
AttemptReturns ==
  /\ pc = "awaitCapture"
  /\ cpc = "done"
  /\ cres.kind = "ok"
  /\ pageInputs' = PushInput(pageInputs, cres.value)
  /\ captured' = TRUE
  /\ pc' = "afterAttempts"
  /\ cpc' = "idle"
  /\ UNCHANGED <<items, idx, attempt, lastError, pending, result>>
  /\ UNCHANGED <<page, dom, cerr, cval, cres, pageCloseCalled>>
  /\ UNCHANGED <<browserVars, buildVars, histVars, runVars, wrapVars, pureVars>>

\* catch (err): a SelectorNotFoundError is rethrown
AttemptCatchFatal ==
  /\ pc = "awaitCapture"
  /\ cpc = "done"
  /\ cres.kind = "err"
  /\ IsSelectorNotFound(cres.err)
  /\ pending' = cres.err
  /\ pc' = "finally"
  /\ cpc' = "idle"
  /\ UNCHANGED <<items, idx, attempt, captured, lastError, pageInputs, result>>
  /\ UNCHANGED <<page, dom, cerr, cval, cres, pageCloseCalled>>
  /\ UNCHANGED <<browserVars, buildVars, histVars, runVars, wrapVars, pureVars>>

\* catch (err): any other error is kept in lastError; attempt++
AttemptCatchRetry ==
  /\ pc = "awaitCapture"
  /\ cpc = "done"
  /\ cres.kind = "err"
  /\ ~IsSelectorNotFound(cres.err)
  /\ lastError' = CatchUpdate(lastError, cres.err)
  /\ attempt' = attempt + 1
  /\ pc' = "attempt"
  /\ cpc' = "idle"
  /\ UNCHANGED <<items, idx, captured, pageInputs, pending, result>>
  /\ UNCHANGED <<page, dom, cerr, cval, cres, pageCloseCalled>>
  /\ UNCHANGED <<browserVars, buildVars, histVars, runVars, wrapVars, pureVars>>

\* if (!captured) throw new Error(`Failed to capture ...`)
ThrowAggregate ==
  /\ pc = "afterAttempts"
  /\ AfterAttemptsThrows(captured)
  /\ pending' = AggregateError(items[idx].url, lastError)
  /\ pc' = "finally"
  /\ UNCHANGED <<items, idx, attempt, captured, lastError, pageInputs, result>>
  /\ UNCHANGED <<browserVars, capVars, buildVars, histVars, runVars, wrapVars, pureVars>>

\* the item is captured: on to the next item
ItemCaptured ==
  /\ pc = "afterAttempts"
  /\ ~AfterAttemptsThrows(captured)
  /\ pc' = "forItem"
  /\ UNCHANGED <<items, idx, attempt, captured, lastError, pageInputs, pending, result>>
  /\ UNCHANGED <<browserVars, capVars, buildVars, histVars, runVars, wrapVars, pureVars>>

\* finally { await browser.close().catch(() => {}) }
\* closeErr is the rejection of close(), None when it resolves
FinallyClose ==
  /\ pc = "finally"
  /\ closeCalls' = closeCalls + 1
  /\ \E closeErr \in {None, ProtocolError} :
       /\ closeFailed' = (closeErr # None)
       /\ LET out == AfterBrowserClose(pending, closeErr)
          IN IF out # None
               THEN /\ result' = Threw(out)
                    /\ pc' = "threw"
               ELSE /\ result' = result
                    /\ pc' = "build"
  /\ UNCHANGED <<items, idx, attempt, captured, lastError, pageInputs, pending>>
  /\ UNCHANGED <<connected, pages>>
  /\ UNCHANGED <<capVars, buildVars, histVars, runVars, wrapVars, pureVars>>

\* ------------------------------------------------------------------------
\* capturePageInput(browser, url, options)
\* ------------------------------------------------------------------------
CurUrl == items[idx].url

\* the exception that leaves the try/finally of capturePageInput:
\* page.close().catch(() => {}) swallows a rejection (closeErr) of close(),
\* but with page undefined the expression page.close throws a TypeError
\* inside the finally block, which replaces the exception of the body
AfterPageClose(p, bodyErr, closeErr) ==
  IF p = 0 THEN TypeErrorOf("close") ELSE bodyErr

\* the try block is left with exception e: on to the finally block
CapThrow(e) ==
  /\ cerr' = e
  /\ cpc' = "finally"

\* the call ends, delivering r to the awaiting main()
CapDeliver(r) ==
  /\ cres' = r
  /\ cpc' = "done"
  /\ inFlight' = inFlight - 1
  /\ lastCallErr' = r.err
  /\ itemCalls' = [itemCalls EXCEPT ![idx].ok = IF r.kind = "ok" THEN @ + 1 ELSE @]

\* const [page] = await browser.pages()
CapPages ==
  /\ cpc = "pages"
  /\ page' = FirstPage(pages)
  /\ cpc' = "setup"
  /\ UNCHANGED <<dom, cerr, cval, cres, pageCloseCalled>>
  /\ UNCHANGED <<mainVars, browserVars, buildVars, histVars, runVars, wrapVars, pureVars>>

\* browser.pages() rejects: the call throws before its try block
CapPagesFails ==
  /\ cpc = "pages"
  /\ cerr' = ProtocolError
  /\ CapDeliver(Threw(ProtocolError))
  /\ UNCHANGED <<page, dom, cval, pageCloseCalled>>
  /\ UNCHANGED <<mainVars, browserVars, buildVars, runVars, wrapVars, pureVars>>

\* await setupPage(page, url, { selector, wait }): with page undefined
\* page.setUserAgent throws; page.goto may fail; waitForSelector(selector)
\* resolves when the selector matches an element within 60 s and throws a
\* TimeoutError when it matches none
CapSetupPage ==
  /\ cpc = "setup"
  /\ IF page = 0
       THEN /\ CapThrow(TypeErrorOf("setUserAgent"))
            /\ dom' = dom
       ELSE \/ /\ dom' = "unloaded"
               /\ CapThrow(NavigationError)
            \/ /\ dom' = "absent"
               /\ CapThrow(TimeoutError)
            \/ /\ dom' = "present"
               /\ cpc' = "remove"
               /\ cerr' = cerr
  /\ UNCHANGED <<page, cval, cres, pageCloseCalled>>
  /\ UNCHANGED <<mainVars, browserVars, buildVars, histVars, runVars, wrapVars, pureVars>>

\* await removeElements(page, remove): page.evaluate may fail; the removal
\* (or the page's own scripts) may take the main element out of the document
CapRemoveElements ==
  /\ cpc = "remove"
  /\ \/ /\ dom' \in {"present", "removed"}
        /\ cpc' = "isolate"
        /\ cerr' = cerr
     \/ /\ dom' = dom
        /\ CapThrow(ProtocolError)
  /\ UNCHANGED <<page, cval, cres, pageCloseCalled>>
  /\ UNCHANGED <<mainVars, browserVars, buildVars, histVars, runVars, wrapVars, pureVars>>

\* const rect = await isolateElement(page, selector);
\* if (!rect) throw new SelectorNotFoundError(selector, url)
CapIsolate ==
  /\ cpc = "isolate"
  /\ \/ IF dom = "present"
          THEN /\ cpc' = "screenshot"
               /\ cerr' = cerr
          ELSE CapThrow(SelectorNotFoundError(MainSelector, CurUrl))
     \/ CapThrow(ProtocolError)
  /\ UNCHANGED <<page, dom, cval, cres, pageCloseCalled>>
  /\ UNCHANGED <<mainVars, browserVars, buildVars, histVars, runVars, wrapVars, pureVars>>

\* page.screenshot(...) and vibrantColorFromPng(...)
CapScreenshot ==
  /\ cpc = "screenshot"
  /\ \/ /\ cpc' = "gradient"
        /\ cerr' = cerr
     \/ CapThrow(ProtocolError)
  /\ UNCHANGED <<page, dom, cval, cres, pageCloseCalled>>
  /\ UNCHANGED <<mainVars, browserVars, buildVars, histVars, runVars, wrapVars, pureVars>>

\* await fixGradientTransparency(page)
CapFixGradient ==
  /\ cpc = "gradient"
  /\ \/ /\ cpc' = "pdf"
        /\ cerr' = cerr
     \/ CapThrow(ProtocolError)
  /\ UNCHANGED <<page, dom, cval, cres, pageCloseCalled>>
  /\ UNCHANGED <<mainVars, browserVars, buildVars, histVars, runVars, wrapVars, pureVars>>

\* const rawPdf = await page.pdf(...); return { rawPdf, rect, ..., url, ... }
CapPdf ==
  /\ cpc = "pdf"
  /\ \/ /\ cval' = PageInputOf(CurUrl)
        /\ cpc' = "finally"
        /\ cerr' = cerr
     \/ /\ cval' = cval
        /\ CapThrow(TimeoutError)
  /\ UNCHANGED <<page, dom, cres, pageCloseCalled>>
  /\ UNCHANGED <<mainVars, browserVars, buildVars, histVars, runVars, wrapVars, pureVars>>

\* finally { await page.close().catch(() => {}) }
\* a close() that resolves takes the page out of browser.pages(); one that
\* rejects may leave it open
CapFinally ==
  /\ cpc = "finally"
  /\ \E closeErr \in {None, ProtocolError} :
       /\ pageCloseCalled' = (page # 0)
       /\ IF page = 0 THEN pages' = pages
          ELSE IF closeErr = None THEN pages' = WithoutPage(pages, page)
          ELSE pages' \in {pages, WithoutPage(pages, page)}
       /\ LET out == AfterPageClose(page, cerr, closeErr)
          IN CapDeliver(IF out # None THEN Threw(out) ELSE Returned(cval))
  /\ UNCHANGED <<page, dom, cerr, cval>>
  /\ UNCHANGED <<connected, closeCalls, closeFailed>>
  /\ UNCHANGED <<mainVars, buildVars, runVars, wrapVars, pureVars>>

\* ------------------------------------------------------------------------
\* buildMultiPagePdf(pageInputs) and put(...)
\* ------------------------------------------------------------------------

\* const pdfDoc = await PDFDocument.create(); the two fonts are embedded
BuildStart ==
  /\ pc = "build"
  /\ ~buildCalled
  /\ buildCalled' = TRUE
  /\ pdfPages' = <<>>
  /\ annots' = <<>>
  /\ buildIdx' = 0
  /\ UNCHANGED uploaded
  /\ UNCHANGED <<mainVars, browserVars, capVars, histVars, runVars, wrapVars, pureVars>>

\* for (const input of pages) await buildPdfPage(pdfDoc, ..., input)
BuildPage ==
  /\ pc = "build"
  /\ buildCalled
  /\ buildIdx < Len(pageInputs)
  /\ buildIdx' = buildIdx + 1
  /\ pdfPages' = AddPage(pdfPages, pageInputs[buildIdx + 1])
  /\ annots' = Append(annots, AddLinkAnnotation(pageInputs[buildIdx + 1].url))
  /\ UNCHANGED <<buildCalled, uploaded>>
  /\ UNCHANGED <<mainVars, browserVars, capVars, histVars, runVars, wrapVars, pureVars>>

\* PDFDocument.load(rawPdf) or embedPage rejects: the build, and main, throw
BuildPageFails ==
  /\ pc = "build"
  /\ buildCalled
  /\ buildIdx < Len(pageInputs)
  /\ result' = Threw(BuildError)
  /\ pc' = "threw"
  /\ UNCHANGED <<items, idx, attempt, captured, lastError, pageInputs, pending>>
  /\ UNCHANGED <<browserVars, capVars, buildVars, histVars, runVars, wrapVars, pureVars>>

\* return pdfDoc.save()
BuildSave ==
  /\ pc = "build"
  /\ buildCalled
  /\ buildIdx = Len(pageInputs)
  /\ pc' = "put"
  /\ UNCHANGED <<items, idx, attempt, captured, lastError, pageInputs, pending, result>>
  /\ UNCHANGED <<browserVars, capVars, buildVars, histVars, runVars, wrapVars, pureVars>>

\* const { url: pdfUrl } = await put(...); return { pdfUrl }
Put ==
  /\ pc = "put"
  /\ uploaded' = pdfPages
  /\ result' = Returned([url |-> <<"p", "d", "f", "U", "r", "l">>])
  /\ pc' = "returned"
  /\ UNCHANGED <<items, idx, attempt, captured, lastError, pageInputs, pending>>
  /\ UNCHANGED <<pdfPages, annots, buildIdx, buildCalled>>
  /\ UNCHANGED <<browserVars, capVars, histVars, runVars, wrapVars, pureVars>>

\* put rejects
PutFails ==
  /\ pc = "put"
  /\ result' = Threw(PutError)
  /\ pc' = "threw"
  /\ UNCHANGED <<items, idx, attempt, captured, lastError, pageInputs, pending>>
  /\ UNCHANGED <<browserVars, capVars, buildVars, histVars, runVars, wrapVars, pureVars>>

\* ------------------------------------------------------------------------
\* runStagehand(body, sessionId), from the point where stagehand.init() has
\* resolved and main is awaited
\* ------------------------------------------------------------------------

\* const result = await main(...) resolved; await stagehand.close(); return result
RunStagehandClose ==
  /\ rpc = "main"
  /\ pc = "returned"
  /\ session' = "closed"
  /\ rpc' = "returned"
  /\ UNCHANGED <<mainVars, browserVars, capVars, buildVars, histVars, wrapVars, pureVars>>

\* await main(...) rejected: the error leaves runStagehand at that line
RunStagehandRejects ==
  /\ rpc = "main"
  /\ pc = "threw"
  /\ rpc' = "threw"
  /\ UNCHANGED session
  /\ UNCHANGED <<mainVars, browserVars, capVars, buildVars, histVars, wrapVars, pureVars>>

Next ==
  \/ Connect \/ ConnectFails
  \/ ForItem \/ ItemsDone
  \/ StartAttempt \/ AttemptsExhausted
  \/ AttemptReturns \/ AttemptCatchFatal \/ AttemptCatchRetry
  \/ ThrowAggregate \/ ItemCaptured
  \/ FinallyClose
  \/ CapPages \/ CapPagesFails \/ CapSetupPage \/ CapRemoveElements
  \/ CapIsolate \/ CapScreenshot \/ CapFixGradient \/ CapPdf \/ CapFinally
  \/ BuildStart \/ BuildPage \/ BuildPageFails \/ BuildSave
  \/ Put \/ PutFails
  \/ RunStagehandClose \/ RunStagehandRejects

Spec == Init /\ [][Next]_vars

\* ------------------------------------------------------------------------
\* Properties of the request handler (checked under Spec)
\* ------------------------------------------------------------------------
ItemIds == 1..Len(items)
SNF == "SelectorNotFoundError"
InCaptureLoop == pc \in {"forItem", "attempt", "awaitCapture", "afterAttempts"}
Composing == pc \in {"build", "put", "returned"}

\* C2: main calls capturePageInput at most 3 times per item and at most one
\* call of an item succeeds; once a call of the current item has succeeded no
\* further attempt of it is started; an item captured (also on its third
\* attempt, after two failures) has its PageInput in pageInputs, and any error
\* main raises afterwards belongs to a later item.
C2_BoundedRetry ==
  \A i \in ItemIds :
    /\ itemCalls[i].calls <= 3
    /\ itemCalls[i].ok <= 1
    /\ itemCalls[i].ok = 1 =>
         /\ i = idx => (pc # "attempt" /\ cpc \in {"idle", "done"})
         /\ (i < idx \/ cpc = "idle") =>
              /\ Len(pageInputs) >= i
              /\ pending # None => idx > i

C2_Witness ==
  \E i \in ItemIds :
    /\ itemCalls[i] = [calls |-> 3, ok |-> 1]
    /\ idx = i + 1
    /\ pc = "awaitCapture"

\* C3: once a call of capturePageInput has thrown SelectorNotFoundError, no
\* further call is started (neither for that item nor for a later one), and
\* the error main carries through its finally block and throws is that very
\* error, not the aggregate one; nothing is composed.
C3_SelectorNotFoundAborts ==
  lastCallErr.name = SNF =>
    /\ cpc \in {"idle", "done"}
    /\ pc \in {"awaitCapture", "finally", "threw"}
    /\ pc = "finally" => pending = lastCallErr
    /\ pc = "threw" => result = Threw(lastCallErr)
    /\ \A j \in ItemIds : j > idx => itemCalls[j].calls = 0
    /\ ~buildCalled

C3_Witness ==
  /\ pc = "threw"
  /\ result.err.name = SNF
  /\ idx < Len(items)
  /\ itemCalls[idx].calls = 2

\* C4: a call of capturePageInput during which the main selector matched no
\* element of the loaded page ends with SelectorNotFoundError.
C4_AbsentSelectorThrowsNotFound ==
  (cpc = "done" /\ dom = "absent") =>
    (cres.kind = "err" /\ cres.err.name = SNF)

\* C5: when the three calls of an item have all thrown errors other than
\* SelectorNotFoundError, the error main throws is the aggregate error made of
\* the item's URL, the count 3 and the message of the error of the third
\* call, and no later item has been attempted.
Exhausted ==
  /\ pc \in {"finally", "threw"}
  /\ idx >= 1
  /\ itemCalls[idx] = [calls |-> 3, ok |-> 0]
  /\ lastCallErr.name \notin {SNF, "undefined"}

C5_AggregateError ==
  Exhausted =>
    /\ (IF pc = "finally" THEN pending ELSE result.err) =
         MkError("Error",
                 <<"Failed to capture", items[idx].url, "after", "3", "attempts:">>
                   \o lastCallErr.message)
    /\ \A j \in ItemIds : j > idx => itemCalls[j].calls = 0

C5_Witness ==
  /\ Exhausted
  /\ pc = "threw"
  /\ idx < Len(items)
  /\ lastError # NavigationError

\* C6: buildMultiPagePdf and put are invoked only when every item of the
\* request has been captured; when an item ended in SelectorNotFoundError or
\* exhausted its retries, nothing is composed or uploaded, however many items
\* were captured before.
C6_NoPartialDocument ==
  /\ (buildCalled \/ Composing \/ pdfPages # <<>> \/ uploaded # <<"none">>) =>
       /\ Len(pageInputs) = Len(items)
       /\ \A i \in ItemIds : itemCalls[i].ok = 1
  /\ pending # None =>
       /\ ~buildCalled
       /\ pdfPages = <<>>
       /\ uploaded = <<"none">>
       /\ pc \in {"finally", "threw"}

C6_Witness ==
  /\ pc = "threw"
  /\ pending # None
  /\ Len(pageInputs) >= 1
  /\ ~buildCalled

\* C7: when the capture loop has completed, pageInputs has one entry per item,
\* the i-th being the capture of the i-th item's URL; the composed document
\* has one page per entry in the same order, and that document is uploaded.
C7_OnePagePerItemInOrder ==
  /\ Composing =>
       /\ Len(pageInputs) = Len(items)
       /\ \A i \in ItemIds : pageInputs[i] = PageInputOf(items[i].url)
  /\ pc \in {"put", "returned"} =>
       pdfPages = [i \in ItemIds |-> items[i].url]
  /\ pc = "returned" => uploaded = [i \in ItemIds |-> items[i].url]

C7_Witness ==
  /\ pc = "returned"
  /\ Len(items) >= 2
  /\ items[1].url # items[2].url
  /\ itemCalls[1].calls >= 2

\* C8: at most one call of capturePageInput is in flight, a call is in flight
\* only while main awaits it, and an item has been attempted only if the item
\* before it was captured.
C8_SequentialCaptures ==
  /\ inFlight \in {0, 1}
  /\ inFlight = 1 => pc = "awaitCapture"
  /\ \A i \in ItemIds : i > 1 /\ itemCalls[i].calls > 0 => itemCalls[i - 1].ok = 1

C8_Witness ==
  /\ inFlight = 1
  /\ idx >= 2
  /\ itemCalls[idx].calls >= 2

\* C9: browser.close() is called once on every exit of the capture loop, not
\* before the last capture attempt has ended; a rejection of close() is
\* swallowed: main throws the capture error when there is one and goes on to
\* the composition otherwise.
C9_BrowserClosedOnce ==
  /\ (InCaptureLoop \/ pc = "finally") => closeCalls = 0
  /\ closeCalls > 0 => inFlight = 0
  /\ Composing => (closeCalls = 1 /\ pending = None)
  /\ (pc = "threw" /\ connected) => closeCalls = 1
  /\ (pc = "threw" /\ pending # None) => result = Threw(pending)
  /\ (pc = "threw" /\ connected /\ pending = None) => result.err \in {BuildError, PutError}

C9_Witness ==
  /\ pc = "threw"
  /\ closeFailed
  /\ pending # None
  /\ result = Threw(pending)

\* C10: when a call of capturePageInput ends, page.close() has been called on
\* the page it used, and what the call delivers is what its body produced:
\* the PageInput it returned or the error it threw.
C10_PageClosedResultUnchanged ==
  cpc = "done" =>
    /\ page # 0 => pageCloseCalled
    /\ cres = (IF cerr # None THEN Threw(cerr) ELSE Returned(cval))

\* C11: every call of capturePageInput works on an open page of the browser
\* (a tab opened for that call): once browser.pages() has been read, page is
\* a page that is open, for every attempt of every item.
C11_EveryAttemptHasOpenPage ==
  cpc = "setup" => (page # 0 /\ \E i \in DOMAIN pages : pages[i] = page)

\* what a JavaScript engine reads of a single-quoted literal whose body
\* starts at index i: the characters up to the first quote that no backslash
\* consumes, a backslash standing for the character after it; rest is what
\* follows the closing quote
RECURSIVE LiteralFrom(_, _)
LiteralFrom(chars, i) ==
  IF i > Len(chars) THEN [value |-> <<>>, closed |-> FALSE, rest |-> <<>>]
  ELSE IF chars[i] = "'"
    THEN [value |-> <<>>, closed |-> TRUE, rest |-> SubSeq(chars, i + 1, Len(chars))]
  ELSE IF chars[i] = "\\" /\ i < Len(chars)
    THEN LET r == LiteralFrom(chars, i + 2) IN [r EXCEPT !.value = <<chars[i + 1]>> \o @]
  ELSE LET r == LiteralFrom(chars, i + 1) IN [r EXCEPT !.value = <<chars[i]>> \o @]

\* the annotation is a link whose script is app.launchURL('<url>', true);
Launches(annotation, url) ==
  /\ annotation.Subtype = "Link"
  /\ annotation.S = "JavaScript"
  /\ Len(annotation.JS) >= 15
  /\ SubSeq(annotation.JS, 1, 15) =
       <<"a", "p", "p", ".", "l", "a", "u", "n", "c", "h", "U", "R", "L", "(", "'">>
  /\ LET lit == LiteralFrom(annotation.JS, 16)
     IN /\ lit.closed
        /\ lit.value = url
        /\ lit.rest = <<",", " ", "t", "r", "u", "e", ")", ";">>

\* C21: every page composed by buildMultiPagePdf carries exactly one link
\* annotation, and the annotation of page i launches the URL of the i-th
\* PageInput; once the N inputs are composed there are N such pages.
C21_OneAnnotationPerPage ==
  /\ Len(annots) = Len(pdfPages)
  /\ \A i \in DOMAIN annots :
       /\ Len(annots[i]) = 1
       /\ Launches(annots[i][1], pageInputs[i].url)
  /\ pc \in {"put", "returned"} => Len(annots) = Len(pageInputs)

C21_Witness ==
  /\ pc = "returned"
  /\ Len(pageInputs) = 2
  /\ pageInputs[1].url # pageInputs[2].url
  /\ Len(annots) = 2
  /\ annots[1] # annots[2]

\* C29: runStagehand closes the session it initialised on every exit path:
\* when it has returned and also when it has thrown because main threw, the
\* session is closed.
C29_SessionClosedOnEveryExit ==
  rpc \in {"returned", "threw"} => session = "closed"

\* ------------------------------------------------------------------------
\* wrapText(text, maxWidth, measureFn, urlMode)
\* A string is the sequence of its characters; indices are 0-based as in
\* the code.
\* ------------------------------------------------------------------------
Alphabet == {"a", "x", "/", "%"}
HexDigits == {"a"}
Separators == {"/"}
MeasureIds == {1, 2}

\* the measure functions: the sum of the characters' widths, all of width 1
\* (a monospaced font) or with a wider "%"; measure 3 is
\* fontMono.widthOfTextAtSize(s, 12) of computeLayout in tenths of a point:
\* every glyph of Courier is 600/1000 em wide, 7.2 pt at 12 pt
CharWidth(id, c) ==
  IF id = 3 THEN 72
  ELSE IF id = 2 /\ c = "%" THEN 2 ELSE 1

RECURSIVE Measure(_, _)
Measure(id, s) == IF s = <<>> THEN 0 ELSE CharWidth(id, Head(s)) + Measure(id, Tail(s))

\* text.slice(a, b)
Slice(t, a, b) == SubSeq(t, a + 1, b)

\* while (end <= text.length && measureFn(text.slice(start, end)) <= maxWidth) end++
RECURSIVE GrowEnd(_, _, _, _, _)
GrowEnd(t, st, end, w, id) ==
  IF end <= Len(t) /\ Measure(id, Slice(t, st, end)) <= w
    THEN GrowEnd(t, st, end + 1, w, id)
    ELSE end

\* length of the longest run of %XX triplets of seg that starts at the
\* (1-based) position i
RECURSIVE TripletRun(_, _)
TripletRun(seg, i) ==
  IF /\ i + 2 <= Len(seg)
     /\ seg[i] = "%"
     /\ seg[i + 1] \in HexDigits
     /\ seg[i + 2] \in HexDigits
    THEN 3 + TripletRun(seg, i + 3)
    ELSE 0

\* the lookahead (?=[/?&#\-_.]|$) at position i
Lookahead(seg, i) == i > Len(seg) \/ seg[i] \in Separators

\* (?:%[0-9A-Fa-f]{2})+(?=...) at position i: the greedy run, given back
\* triplet by triplet until the lookahead matches; 0 when there is no match
RECURSIVE TripletMatch(_, _, _)
TripletMatch(seg, i, n) ==
  IF n = 0 THEN 0
  ELSE IF Lookahead(seg, i + n) THEN n
  ELSE TripletMatch(seg, i, n - 3)

\* length of the match of breakRe at position i, 0 when there is none
MatchAt(seg, i) ==
  IF seg[i] \in Separators THEN 1 ELSE TripletMatch(seg, i, TripletRun(seg, i))

\* the loop over breakRe.exec(segment): bestBreak = m.index + m[0].length of
\* the last match
RECURSIVE ScanBreaks(_, _, _)
ScanBreaks(seg, i, best) ==
  IF i > Len(seg) THEN best
  ELSE LET n == MatchAt(seg, i)
       IN IF n > 0 THEN ScanBreaks(seg, i + n, (i - 1) + n)
          ELSE ScanBreaks(seg, i + 1, best)

BestBreak(seg) == ScanBreaks(seg, 1, -1)

\* lines.push(text[start]); start++
SingleChar_NoAdvance(t, st) == [line |-> <<t[st + 1]>>, next |-> st]
SingleChar(t, st) == [line |-> <<t[st + 1]>>, next |-> st + 1]

\* lines.push(text.slice(start, start + bestBreak)); start = start + bestBreak
UrlBreak_DropsSeparator(t, st, bestBreak) ==
  [line |-> Slice(t, st, st + bestBreak - 1), next |-> st + bestBreak]
UrlBreak(t, st, bestBreak) ==
  [line |-> Slice(t, st, st + bestBreak), next |-> st + bestBreak]

\* lines.push(text.slice(start, lineEnd)); start = lineEnd
HardBreak_OneMore(t, st, lineEnd) ==
  LET e == IF lineEnd < Len(t) THEN lineEnd + 1 ELSE lineEnd
  IN [line |-> Slice(t, st, e), next |-> e]
HardBreak(t, st, lineEnd) == [line |-> Slice(t, st, lineEnd), next |-> lineEnd]

\* one iteration of the outer loop: the line pushed and the new start
WrapIteration(t, st, w, id, url) ==
  LET end == GrowEnd(t, st, st + 1, w, id)
      lineEnd == end - 1
  IN IF lineEnd <= st THEN SingleChar(t, st)
     ELSE IF url
       THEN LET segment == Slice(t, st, lineEnd)
                bestBreak == BestBreak(segment)
            IN IF bestBreak > 0 THEN UrlBreak(t, st, bestBreak)
               ELSE HardBreak(t, st, lineEnd)
     ELSE HardBreak(t, st, lineEnd)

Texts == UNION { [1..n -> Alphabet] : n \in 0..MaxLen }

WrapInputs ==
  /\ text \in Texts
  /\ maxWidth \in -1..MaxWidth
  /\ measureId \in MeasureIds
  /\ urlMode \in BOOLEAN
  /\ start = 0
  /\ lines = <<>>
  /\ wpc = "loop"

\* while (start < text.length) { ... }
WrapStep ==
  /\ wpc = "loop"
  /\ start < Len(text)
  /\ LET it == WrapIteration(text, start, maxWidth, measureId, urlMode)
     IN /\ lines' = Append(lines, it.line)
        /\ start' = it.next
  /\ UNCHANGED <<text, maxWidth, measureId, urlMode, wpc>>
  /\ UNCHANGED <<requestVars, pureVars>>

\* return lines
WrapReturn ==
  /\ wpc = "loop"
  /\ start >= Len(text)
  /\ wpc' = "done"
  /\ UNCHANGED <<text, maxWidth, measureId, urlMode, start, lines>>
  /\ UNCHANGED <<requestVars, pureVars>>

InitWrap ==
  /\ RequestIdle /\ WrapInputs
  /\ PureIdle("none")

NextWrap == WrapStep \/ WrapReturn

SpecWrap == InitWrap /\ [][NextWrap]_vars

\* the function runs to its end once called: nothing it awaits can block it
SpecWrapFair == SpecWrap /\ WF_vars(NextWrap)

\* ------------------------------------------------------------------------
\* Properties of wrapText (checked under SpecWrap)
\* ------------------------------------------------------------------------
RECURSIVE Concat(_)
Concat(ls) == IF ls = <<>> THEN <<>> ELSE Head(ls) \o Concat(Tail(ls))

\* C1: for a non-empty text and a positive maxWidth, the lines wrapText
\* returns, concatenated in order, are the text, in generic and in URL mode.
C1_ConcatIsText ==
  (wpc = "done" /\ Len(text) > 0 /\ maxWidth > 0) => Concat(lines) = text

C1_Witness ==
  /\ wpc = "done"
  /\ urlMode
  /\ maxWidth >= 3
  /\ Len(lines) >= 2
  /\ Len(lines[1]) = 2
  /\ lines[1][2] = "/"
  /\ Concat(lines) = text

\* C23: for a positive maxWidth and the (monotonic) measure functions, every
\* line wrapText pushes, in either mode, measures at most maxWidth or is a
\* single character that alone is wider than maxWidth.
C23_LinesFitOrSingleChar ==
  maxWidth > 0 =>
    \A k \in DOMAIN lines :
      \/ Measure(measureId, lines[k]) <= maxWidth
      \/ Len(lines[k]) = 1 /\ CharWidth(measureId, lines[k][1]) > maxWidth

C23_Witness ==
  /\ wpc = "done"
  /\ maxWidth > 0
  /\ \E k \in DOMAIN lines : Len(lines[k]) = 1 /\ Measure(measureId, lines[k]) > maxWidth
  /\ \E k \in DOMAIN lines : Measure(measureId, lines[k]) = maxWidth
  /\ urlMode

\* C24: wrapText terminates for every text and every maxWidth, zero and
\* negative included: every iteration of the outer loop pushes one non-empty
\* line and moves start forward by at least one character, the lines never
\* outnumber the characters of the text, and the function returns.
C24_WrapTextTerminates ==
  /\ [](/\ Len(lines) <= start
        /\ start <= Len(text)
        /\ \A k \in DOMAIN lines : lines[k] # <<>>)
  /\ [][wpc' = "loop" => (start' > start /\ Len(lines') = Len(lines) + 1)]_vars
  /\ <>(wpc = "done")

C24_Witness ==
  /\ wpc = "done"
  /\ maxWidth < 0
  /\ Len(text) >= 3
  /\ Len(lines) = Len(text)

\* the break after the first p characters of the text falls between the "%"
\* of a %XX triplet and its second hex digit
InsideTriplet(p) ==
  \/ /\ p + 2 <= Len(text)
     /\ text[p] = "%" /\ text[p + 1] \in HexDigits /\ text[p + 2] \in HexDigits
  \/ /\ p >= 2 /\ p + 1 <= Len(text)
     /\ text[p - 1] = "%" /\ text[p] \in HexDigits /\ text[p + 1] \in HexDigits

\* C25: in URL mode no line of wrapText ends inside a percent-encoded
\* character, for any text and any maxWidth: start, the place of every line
\* break, is never between the "%" of a %XX triplet and its second hex digit.
C25_NoBreakInsideTriplet ==
  (urlMode /\ 0 < start /\ start < Len(text)) => ~InsideTriplet(start)

\* C27: when the text that remains measures at most maxWidth, wrapText
\* pushes it as one line and splits it no further, in generic and in URL
\* mode: a line from which the rest of the text fits is the last line.
C27_FittingTextIsOneLine ==
  wpc = "done" =>
    \A k \in DOMAIN lines :
      Measure(measureId, Concat(SubSeq(lines, k, Len(lines)))) <= maxWidth
        => k = Len(lines)

\* ------------------------------------------------------------------------
\* The options main() resolves for an item (main.ts, const options)
\* An optional value is <<>> when absent (undefined) and <<v>> when present.
\* ------------------------------------------------------------------------
notOptVars == <<requestVars, wrapVars, layoutVars, pngVars, cssVars, gradVars, linkVars>>

\* obj?.field
Chain(obj, field) == IF obj = <<>> THEN <<>> ELSE obj[1][field]

\* a ?? b
Coalesce(a, b) == IF a # <<>> THEN a ELSE b

\* wait resolved from the selectors object that wins as a whole
ResolveOptions_WholeObject(b, it) ==
  [selector |-> Coalesce(Chain(it.selectors, "main"), Chain(b.selectors, "main")),
   wait |-> Coalesce(Chain(Coalesce(it.selectors, b.selectors), "wait"), <<<<>>>>)[1],
   remove |-> Coalesce(Coalesce(Chain(it.selectors, "remove"), Chain(b.selectors, "remove")),
                       <<<<>>>>)[1],
   margin |-> Coalesce(Chain(it.document, "margin"), Chain(b.document, "margin")),
   padding |-> Coalesce(Chain(it.document, "padding"), Chain(b.document, "padding"))]

\* selector: (item.selectors?.main ?? body.selectors?.main)!
\* wait:     item.selectors?.wait ?? body.selectors?.wait ?? []
\* remove:   item.selectors?.remove ?? body.selectors?.remove ?? []
\* margin:   item.document?.margin ?? body.document?.margin
\* padding:  item.document?.padding ?? body.document?.padding
\* (wait and remove are the lists themselves, no longer optional)
ResolveOptions(b, it) ==
  [selector |-> Coalesce(Chain(it.selectors, "main"), Chain(b.selectors, "main")),
   wait |-> Coalesce(Coalesce(Chain(it.selectors, "wait"), Chain(b.selectors, "wait")),
                     <<<<>>>>)[1],
   remove |-> Coalesce(Coalesce(Chain(it.selectors, "remove"), Chain(b.selectors, "remove")),
                       <<<<>>>>)[1],
   margin |-> Coalesce(Chain(it.document, "margin"), Chain(b.document, "margin")),
   padding |-> Coalesce(Chain(it.document, "padding"), Chain(b.document, "padding"))]

\* the values of SelectorsSchema, DocumentSchema and SpacingSchema drawn
Optional(S) == {<<>>} \cup {<<v>> : v \in S}

ItemObjects ==
  [url : {"https://a.test/x"},
   selectors : Optional([main : Optional({"#item"}),
                         wait : Optional({<<>>, <<"#item-list">>}),
                         remove : Optional({<<>>, <<"#item-list">>})]),
   document : Optional([margin : Optional({[top |-> 1, right |-> 2, bottom |-> 3, left |-> 4]}),
                        padding : Optional({[top |-> 1, right |-> 2, bottom |-> 3, left |-> 4]})])]

BodyObjects ==
  [selectors : Optional([main : Optional({"#global"}),
                         wait : Optional({<<"#global-list">>}),
                         remove : Optional({<<"#global-list">>})]),
   document : Optional([margin : Optional({[top |-> 10, right |-> 11, bottom |-> 12, left |-> 13]}),
                        padding : Optional({[top |-> 10, right |-> 11, bottom |-> 12, left |-> 13]})])]

InitOptions ==
  /\ RequestIdle /\ WrapIdle
  /\ PureIdle("options")
  /\ body \in BodyObjects
  /\ item \in ItemObjects
  /\ options = <<>>
  /\ opc = "start"

\* const options = { selector, wait, remove, margin, padding }
ResolveItemOptions ==
  /\ opc = "start"
  /\ options' = <<ResolveOptions(body, item)>>
  /\ opc' = "done"
  /\ UNCHANGED <<body, item>>
  /\ UNCHANGED notOptVars

SpecOptions == InitOptions /\ [][ResolveItemOptions]_vars

\* C12: each of the five fields of the options is the item's value when the
\* item has the field, else the global value when the body has it, else the
\* empty list (wait, remove) or absent (margin, padding, main selector),
\* whatever the other fields of the item and of the body are.
Has(obj, field) == obj # <<>> /\ obj[1][field] # <<>>
ValueOf(obj, field) == obj[1][field][1]

ItemWinsOverGlobal(group, field, resolved, default) ==
  /\ Has(item[group], field) => resolved = <<ValueOf(item[group], field)>>
  /\ (~Has(item[group], field) /\ Has(body[group], field)) =>
       resolved = <<ValueOf(body[group], field)>>
  /\ (~Has(item[group], field) /\ ~Has(body[group], field)) => resolved = default

C12_ItemWinsFieldByField ==
  opc = "done" =>
    LET o == options[1]
    IN /\ ItemWinsOverGlobal("selectors", "main", o.selector, <<>>)
       /\ ItemWinsOverGlobal("selectors", "wait", <<o.wait>>, <<<<>>>>)
       /\ ItemWinsOverGlobal("selectors", "remove", <<o.remove>>, <<<<>>>>)
       /\ ItemWinsOverGlobal("document", "margin", o.margin, <<>>)
       /\ ItemWinsOverGlobal("document", "padding", o.padding, <<>>)

C12_Witness ==
  /\ opc = "done"
  /\ Has(item.document, "margin")
  /\ Has(item.selectors, "remove")
  /\ ~Has(item.selectors, "main")
  /\ ~Has(item.selectors, "wait")
  /\ options[1].selector = <<"#global">>
  /\ options[1].wait = <<"#global-list">>
  /\ options[1].margin = <<[top |-> 1, right |-> 2, bottom |-> 3, left |-> 4]>>

\* C28: for every request PdfBodySchema accepts, the selector of the options
\* main resolves for an item, the one handed to capturePageInput, is a
\* defined string: the item's selectors.main or else the global one.
C28_MainSelectorDefined ==
  opc = "done" => options[1].selector # <<>>

\* ------------------------------------------------------------------------
\* computeLayout(rect, url, fontMono, marginOpt, paddingOpt)
\* Lengths are in PDF points; the rects drawn have pixel sizes that are
\* multiples of 4, so that px * 72/96 is a whole number of points.  The
\* width of a text in fontMono at 12 pt is measure 3 of CharWidth, in tenths
\* of a point, and the width it is wrapped to is scaled alike.
\* ------------------------------------------------------------------------
notLayoutVars == <<requestVars, wrapVars, optVars, pngVars, cssVars, gradVars, linkVars>>

MaxUrlLen == 3

\* the whole of wrapText: the lines pushed by the iterations of its loop,
\* from index st on, after the lines acc
RECURSIVE WrapText(_, _, _, _, _, _)
WrapText(t, st, w, id, url, acc) ==
  IF st < Len(t)
    THEN LET it == WrapIteration(t, st, w, id, url)
         IN WrapText(t, it.next, w, id, url, Append(acc, it.line))
    ELSE acc

\* const PX_TO_PT = 72 / 96
PxToPt(px) == (px * 72) \div 96

LabelFontSize == 9
UrlFontSize == 12
LineGap == 2
TextBlockPad == 5
LabelToUrlGap == 4
TopBannerFontSize == 9
TextPadX == 10

\* paddingOpt ?? { top: 20, right: 20, bottom: 20, left: 20 }
DefaultPadding_AsMargin == [top |-> 16, right |-> 16, bottom |-> 16, left |-> 16]
DefaultPadding == [top |-> 20, right |-> 20, bottom |-> 20, left |-> 20]

\* marginOpt ?? { top: 16, right: 16, bottom: 16, left: 16 }
DefaultMargin == [top |-> 16, right |-> 16, bottom |-> 16, left |-> 16]

\* textBlockPad + labelRowH + labelToUrlGap + urlLines.length * urlRowH, with
\* labelRowH = labelFontSize + lineGap and urlRowH = urlFontSize + lineGap
BottomTextHeight_NoLineGap(n) ==
  TextBlockPad + LabelFontSize + LabelToUrlGap + n * UrlFontSize
BottomTextHeight(n) ==
  TextBlockPad + (LabelFontSize + LineGap) + LabelToUrlGap + n * (UrlFontSize + LineGap)

\* Math.max(margin.bottom, bottomTextHeight)
BottomMarginOf_TextOnly(marginBottom, textHeight) == textHeight
BottomMarginOf(marginBottom, textHeight) ==
  IF marginBottom >= textHeight THEN marginBottom ELSE textHeight

ComputeLayout(rect, url, marginOpt, paddingOpt) ==
  LET contentWidth == PxToPt(rect.width)
      contentHeight == PxToPt(rect.height)
      padding == Coalesce(paddingOpt, <<DefaultPadding>>)[1]
      margin == Coalesce(marginOpt, <<DefaultMargin>>)[1]
      paddedWidth == contentWidth + padding.left + padding.right
      textX == margin.left + TextPadX
      availableTextWidth == paddedWidth - TextPadX * 2
      urlLines == WrapText(url, 0, 10 * availableTextWidth, 3, TRUE, <<>>)
      bottomTextHeight == BottomTextHeight(Len(urlLines))
      bottomMargin == BottomMarginOf(margin.bottom, bottomTextHeight)
      paddedHeight == contentHeight + padding.top + padding.bottom
      pageWidth == paddedWidth + margin.left + margin.right
      pageHeight == paddedHeight + margin.top + bottomMargin
  IN [pageWidth |-> pageWidth,
      pageHeight |-> pageHeight,
      margin |-> margin,
      padding |-> padding,
      bottomMargin |-> bottomMargin,
      contentWidth |-> contentWidth,
      contentHeight |-> contentHeight,
      paddedWidth |-> paddedWidth,
      paddedHeight |-> paddedHeight,
      textX |-> textX,
      textPadX |-> TextPadX,
      labelFontSize |-> LabelFontSize,
      urlFontSize |-> UrlFontSize,
      topBannerFontSize |-> TopBannerFontSize,
      labelRowH |-> LabelFontSize + LineGap,
      urlRowH |-> UrlFontSize + LineGap,
      labelToUrlGap |-> LabelToUrlGap,
      textBlockPad |-> TextBlockPad,
      urlLines |-> urlLines]

\* the arguments drawn: rects of four widths and two heights in pixels, the
\* URLs of one to MaxUrlLen characters, a margin and a padding absent or one
\* of two objects
InitLayout ==
  /\ RequestIdle /\ WrapIdle
  /\ PureIdle("layout")
  /\ layArgs \in
       [rect : [width : {0, 4, 40, 400}, height : {0, 300}],
        url : UNION { [1..n -> Alphabet] : n \in 1..MaxUrlLen },
        marginOpt : Optional({[top |-> 0, right |-> 0, bottom |-> 0, left |-> 0],
                              [top |-> 1, right |-> 2, bottom |-> 100, left |-> 3]}),
        paddingOpt : Optional({[top |-> 0, right |-> 0, bottom |-> 0, left |-> 0],
                               [top |-> 1, right |-> 2, bottom |-> 3, left |-> 4]})]
  /\ layout = <<>>
  /\ bottomBlock = <<>>
  /\ lpc = "start"

\* const layout = computeLayout(rect, url, fontMono, margin, padding)
ComputeLayoutCall ==
  /\ lpc = "start"
  /\ layout' = <<ComputeLayout(layArgs.rect, layArgs.url, layArgs.marginOpt,
                               layArgs.paddingOpt)>>
  /\ lpc' = "done"
  /\ UNCHANGED <<layArgs, bottomBlock>>
  /\ UNCHANGED notLayoutVars

\* drawBottomBlock: the texts drawn with their baselines, the label first
\* and then one text per URL line, the cursor moving down (the icon next to
\* the label and the horizontal placement are left out)
DrawBottomBlock(l) ==
  LET labelY == l.bottomMargin - l.textBlockPad - l.labelFontSize
      firstUrlY == labelY - (l.labelRowH + l.labelToUrlGap)
  IN <<[text |-> <<"Clique para abrir em nova aba">>, y |-> labelY,
        size |-> l.labelFontSize]>>
     \o [k \in 1..Len(l.urlLines) |->
          [text |-> l.urlLines[k], y |-> firstUrlY - (k - 1) * l.urlRowH,
           size |-> l.urlFontSize]]

\* addBottomLinkAnnotation: y and h of the rect handed to addLinkAnnotation
\* (x and w, which depend on the label's width, are left out)
BottomLinkRect_NoLabelRow(l) ==
  LET annotTop == l.bottomMargin - l.textBlockPad
      annotBottom == l.bottomMargin - l.textBlockPad - l.labelToUrlGap
                       - Len(l.urlLines) * l.urlRowH
  IN [y |-> annotBottom, h |-> annotTop - annotBottom]
BottomLinkRect(l) ==
  LET annotTop == l.bottomMargin - l.textBlockPad
      annotBottom == l.bottomMargin - l.textBlockPad - l.labelRowH - l.labelToUrlGap
                       - Len(l.urlLines) * l.urlRowH
  IN [y |-> annotBottom, h |-> annotTop - annotBottom]

\* drawBottomBlock(page, layout, ...); addBottomLinkAnnotation(pdfDoc, page,
\* layout, url, ...)
DrawFooter ==
  /\ lpc = "done"
  /\ bottomBlock' = <<[texts |-> DrawBottomBlock(layout[1]),
                  rect |-> BottomLinkRect(layout[1]),
                  annots |-> AddLinkAnnotation(layArgs.url)]>>
  /\ lpc' = "drawn"
  /\ UNCHANGED <<layArgs, layout>>
  /\ UNCHANGED notLayoutVars

NextLayout == ComputeLayoutCall \/ DrawFooter

SpecLayout == InitLayout /\ [][NextLayout]_vars

\* ------------------------------------------------------------------------
\* Properties of computeLayout (checked under SpecLayout)
\* ------------------------------------------------------------------------
GivenMargin ==
  IF layArgs.marginOpt # <<>> THEN layArgs.marginOpt[1]
  ELSE [top |-> 16, right |-> 16, bottom |-> 16, left |-> 16]

\* C13: the Layout returned has bottomMargin >= margin.bottom,
\* pageWidth = paddedWidth + margin.left + margin.right and
\* pageHeight = paddedHeight + margin.top + bottomMargin, for the margin
\* given or defaulted.
C13_PageSizeInvariants ==
  lpc = "done" =>
    LET l == layout[1]
    IN /\ l.margin = GivenMargin
       /\ l.bottomMargin >= GivenMargin.bottom
       /\ l.pageWidth = l.paddedWidth + GivenMargin.left + GivenMargin.right
       /\ l.pageHeight = l.paddedHeight + GivenMargin.top + l.bottomMargin

C13_Witness ==
  /\ lpc = "done"
  /\ layArgs.marginOpt # <<>>
  /\ layout[1].bottomMargin = 100
  /\ Len(layout[1].urlLines) >= 2
  /\ layout[1].pageHeight = layout[1].paddedHeight + 1 + 100

\* C14: bottomMargin = max(margin.bottom, 5 + (9 + 2) + 4 + n * (12 + 2)),
\* n being the number of lines of the URL wrapped in URL mode to the width
\* paddedWidth - 2 * 10 with the 12 pt monospaced font.
LinesOfUrl ==
  Len(WrapText(layArgs.url, 0, 10 * (layout[1].paddedWidth - 2 * 10), 3, TRUE, <<>>))

C14_BottomMarginFormula ==
  lpc = "done" =>
    LET l == layout[1]
        n == LinesOfUrl
        footer == 5 + (9 + 2) + 4 + n * (12 + 2)
    IN /\ Len(l.urlLines) = n
       /\ l.bottomMargin >= GivenMargin.bottom
       /\ l.bottomMargin >= footer
       /\ l.bottomMargin \in {GivenMargin.bottom, footer}

C14_Witness ==
  /\ lpc = "done"
  /\ Len(layout[1].urlLines) = 3
  /\ layout[1].bottomMargin = 62
  /\ GivenMargin.bottom = 16

\* C15: without a margin and a padding override the margin is 16 and the
\* padding 20 on every side, so pageWidth = 0.75 w + 2 * 20 + 2 * 16 and
\* pageHeight = 0.75 h + 2 * 20 + 16 + bottomMargin.
C15_DefaultSpacing ==
  (lpc = "done" /\ layArgs.marginOpt = <<>> /\ layArgs.paddingOpt = <<>>) =>
    LET l == layout[1]
    IN /\ l.margin = [top |-> 16, right |-> 16, bottom |-> 16, left |-> 16]
       /\ l.padding = [top |-> 20, right |-> 20, bottom |-> 20, left |-> 20]
       /\ 4 * l.pageWidth = 3 * layArgs.rect.width + 4 * (2 * 20 + 2 * 16)
       /\ 4 * l.pageHeight = 3 * layArgs.rect.height + 4 * (2 * 20 + 16 + l.bottomMargin)

C15_Witness ==
  /\ lpc = "done"
  /\ layArgs.marginOpt = <<>>
  /\ layArgs.paddingOpt = <<>>
  /\ layArgs.rect = [width |-> 400, height |-> 300]
  /\ layout[1].pageWidth = 372
  /\ layout[1].pageHeight = 225 + 40 + 16 + layout[1].bottomMargin

\* C30: the footer stays inside the bottom margin strip: the baseline of
\* the label and of every URL line drawn is >= 0 and below bottomMargin; the
\* annotation rectangle has its bottom edge >= 0, its top edge at
\* bottomMargin - 5 and the positive height 11 + 4 + 14 n for n URL lines,
\* and it covers the label row and every URL line.
C30_FooterInsideBottomStrip ==
  lpc = "drawn" =>
    LET l == layout[1]
        f == bottomBlock[1]
        n == Len(l.urlLines)
    IN /\ Len(f.texts) = n + 1
       /\ \A k \in DOMAIN f.texts :
            /\ f.texts[k].y >= 0
            /\ f.texts[k].y < l.bottomMargin
            /\ f.rect.y <= f.texts[k].y
            /\ f.texts[k].y + f.texts[k].size <= f.rect.y + f.rect.h
       /\ \A k \in 1..n : f.texts[k + 1].text = l.urlLines[k]
       /\ f.rect.y >= 0
       /\ f.rect.y + f.rect.h = l.bottomMargin - 5
       /\ f.rect.h = 11 + 4 + 14 * n
       /\ f.rect.h > 0

\* three URL lines in a strip no taller than its text: the rectangle
\* reaches the bottom edge of the page
C30_Witness ==
  /\ lpc = "drawn"
  /\ Len(layout[1].urlLines) = 3
  /\ layout[1].bottomMargin = 62
  /\ bottomBlock[1].rect = [y |-> 0, h |-> 57]
  /\ bottomBlock[1].texts[4].y = 5

\* ------------------------------------------------------------------------
\* vibrantColorFromPng(pngBuffer)
\* pngBuffer is the sequence of its bytes; index i of the code is element
\* i + 1 of the sequence.  pngResult is <<>> while the call runs, then the
\* RGB value returned or the error thrown.
\* ------------------------------------------------------------------------
notPngVars == <<requestVars, wrapVars, optVars, layoutVars, cssVars, gradVars, linkVars>>

\* the value of a typed-array read past the end
Undefined == -1

\* pngBuffer[i]
ByteAt(buf, i) == IF i >= 0 /\ i < Len(buf) THEN buf[i + 1] ELSE Undefined

\* view.getUint32(i) throws a RangeError unless bytes i .. i + 3 exist
CanGetUint32(buf, i) == i + 4 <= Len(buf)
GetUint32(buf, i) ==
  buf[i + 1] * 16777216 + buf[i + 2] * 65536 + buf[i + 3] * 256 + buf[i + 4]

\* the character codes of the chunk types
TypeCodes ==
  [IHDR |-> <<73, 72, 68, 82>>, IDAT |-> <<73, 68, 65, 84>>,
   IEND |-> <<73, 69, 78, 68>>, tEXt |-> <<116, 69, 88, 116>>]

\* length, type and data of the chunk at offset; String.fromCharCode gives
\* the code 0 for an undefined byte, and slice is clamped to the buffer
ChunkHeader ==
  LET length == GetUint32(pngBuffer, offset)
      code(i) == IF ByteAt(pngBuffer, i) = Undefined THEN 0 ELSE ByteAt(pngBuffer, i)
      clamp(i) == IF i > Len(pngBuffer) THEN Len(pngBuffer) ELSE i
  IN [length |-> length,
      type |-> <<code(offset + 4), code(offset + 5), code(offset + 6), code(offset + 7)>>,
      data |-> SubSeq(pngBuffer, clamp(offset + 8) + 1, clamp(offset + 8 + length))]

\* one iteration of the chunk loop that reaches offset += 12 + length
ReadChunk ==
  /\ ppc = "chunks"
  /\ offset < Len(pngBuffer)
  /\ CanGetUint32(pngBuffer, offset)
  /\ ChunkHeader.type # TypeCodes.IEND
  /\ ChunkHeader.type = TypeCodes.IHDR => CanGetUint32(pngBuffer, offset + 12)
  /\ ihdr' = IF ChunkHeader.type = TypeCodes.IHDR
               THEN [width |-> GetUint32(pngBuffer, offset + 8),
                     height |-> GetUint32(pngBuffer, offset + 12),
                     bitDepth |-> ByteAt(pngBuffer, offset + 16),
                     colorType |-> ByteAt(pngBuffer, offset + 17)]
               ELSE ihdr
  /\ idatChunks' = IF ChunkHeader.type = TypeCodes.IDAT
                     THEN Append(idatChunks, ChunkHeader.data)
                     ELSE idatChunks
  /\ offset' = offset + 12 + ChunkHeader.length
  /\ UNCHANGED <<pngBuffer, raw, pixels, buckets, pngResult, ppc>>
  /\ UNCHANGED notPngVars

\* view.getUint32(offset) with fewer than four bytes left, or the width or
\* the height of an IHDR chunk read past the end of the buffer
ReadChunkThrows ==
  /\ ppc = "chunks"
  /\ offset < Len(pngBuffer)
  /\ \/ ~CanGetUint32(pngBuffer, offset)
     \/ /\ CanGetUint32(pngBuffer, offset)
        /\ ChunkHeader.type = TypeCodes.IHDR
        /\ ~CanGetUint32(pngBuffer, offset + 12)
  /\ pngResult' =
       <<[kind |-> "err",
          err |-> MkError("RangeError", <<"Offset is outside the bounds of the DataView">>),
          value |-> [r |-> Undefined, g |-> Undefined, b |-> Undefined]]>>
  /\ ppc' = "done"
  /\ UNCHANGED <<pngBuffer, offset, ihdr, idatChunks, raw, pixels, buckets>>
  /\ UNCHANGED notPngVars

\* while (offset < pngBuffer.length) is false, or the break at IEND
ChunkLoopExit ==
  /\ ppc = "chunks"
  /\ \/ offset >= Len(pngBuffer)
     \/ /\ CanGetUint32(pngBuffer, offset)
        /\ ChunkHeader.type = TypeCodes.IEND
  /\ ppc' = "format"
  /\ UNCHANGED <<pngBuffer, offset, ihdr, idatChunks, raw, pixels, buckets, pngResult>>
  /\ UNCHANGED notPngVars

\* if (bitDepth !== 8 || (colorType !== 2 && colorType !== 6))
Supported(h) == h.bitDepth = 8 /\ h.colorType \in {2, 6}

UnsupportedColor_MidGray == [r |-> 128, g |-> 128, b |-> 128]
UnsupportedColor == [r |-> 0, g |-> 0, b |-> 0]

ReturnUnsupported ==
  /\ ppc = "format"
  /\ ~Supported(ihdr)
  /\ pngResult' = <<[kind |-> "ok", err |-> None, value |-> UnsupportedColor]>>
  /\ ppc' = "done"
  /\ UNCHANGED <<pngBuffer, offset, ihdr, idatChunks, raw, pixels, buckets>>
  /\ UNCHANGED notPngVars

\* const channels = colorType === 6 ? 4 : 3
Channels(h) == IF h.colorType = 6 THEN 4 ELSE 3

\* the concatenation of the IDAT chunks (compressed.set(chunk, pos))
RECURSIVE Compressed(_)
Compressed(chunks) ==
  IF chunks = <<>> THEN <<>> ELSE Head(chunks) \o Compressed(Tail(chunks))

\* the Adler-32 checksum that ends a zlib stream
RECURSIVE AdlerFrom(_, _, _, _)
AdlerFrom(bytes, k, a, b) ==
  IF k > Len(bytes) THEN b * 65536 + a
  ELSE LET a2 == (a + bytes[k]) % 65521
       IN AdlerFrom(bytes, k + 1, a2, (b + a2) % 65521)

\* DecompressionStream("deflate") on the zlib streams drawn here, which are
\* streams of one stored block and cuts of such streams: the header 78 01,
\* the block header 01 LEN NLEN, LEN bytes (bytes 8 .. 7 + LEN of the stream)
\* and their Adler-32.  Anything else makes the stream reject.
InflateOk(c) ==
  /\ Len(c) >= 11
  /\ c[1] = 120 /\ c[2] = 1 /\ c[3] = 1
  /\ c[4] + 256 * c[5] + c[6] + 256 * c[7] = 65535
  /\ Len(c) = 7 + (c[4] + 256 * c[5]) + 4
  /\ GetUint32(c, Len(c) - 4) = AdlerFrom(SubSeq(c, 8, Len(c) - 4), 1, 1, 0)

\* await new Response(ds.readable).arrayBuffer() rejects
InflateRejects ==
  /\ ppc = "format"
  /\ Supported(ihdr)
  /\ ~InflateOk(Compressed(idatChunks))
  /\ pngResult' =
       <<[kind |-> "err",
          err |-> MkError("TypeError", <<"The compressed data was not valid">>),
          value |-> [r |-> Undefined, g |-> Undefined, b |-> Undefined]]>>
  /\ ppc' = "done"
  /\ UNCHANGED <<pngBuffer, offset, ihdr, idatChunks, raw, pixels, buckets>>
  /\ UNCHANGED notPngVars

\* the value stored in pixels[dst + x] for the filter type of the row, a the
\* byte to the left, b above and c above-left; an undefined raw byte stores 0
Unfilter(filterByte, rawByte, a, b, c) ==
  LET abs(n) == IF n < 0 THEN -n ELSE n
      p == a + b - c
      pa == abs(p - a)
      pb == abs(p - b)
      pc2 == abs(p - c)
      paeth == IF pa <= pb /\ pa <= pc2 THEN a ELSE IF pb <= pc2 THEN b ELSE c
  IN IF rawByte = Undefined THEN 0
     ELSE IF filterByte = 1 THEN (rawByte + a) % 256
     ELSE IF filterByte = 2 THEN (rawByte + b) % 256
     ELSE IF filterByte = 3 THEN (rawByte + ((a + b) \div 2)) % 256
     ELSE IF filterByte = 4 THEN (rawByte + paeth) % 256
     ELSE rawByte

\* the filter reconstruction loops, one byte of pixels per step; acc is the
\* part of pixels written so far
RECURSIVE Reconstruct(_, _, _, _, _)
Reconstruct(rawBytes, height, stride, channels, acc) ==
  IF Len(acc) >= height * stride THEN acc
  ELSE LET k == Len(acc)
           y == k \div stride
           x == k % stride
           filterByte == ByteAt(rawBytes, y * (stride + 1))
           rawByte == ByteAt(rawBytes, y * (stride + 1) + 1 + x)
           a == IF x >= channels THEN acc[k - channels + 1] ELSE 0
           b == IF y > 0 THEN acc[k - stride + 1] ELSE 0
           c == IF x >= channels /\ y > 0 THEN acc[k - stride - channels + 1] ELSE 0
       IN Reconstruct(rawBytes, height, stride, channels,
                      Append(acc, Unfilter(filterByte, rawByte, a, b, c)))

Max3(r, g, b) ==
  IF r >= g /\ r >= b THEN r ELSE IF g >= b THEN g ELSE b
Min3(r, g, b) ==
  IF r <= g /\ r <= b THEN r ELSE IF g <= b THEN g ELSE b

\* if (a < 200) continue;
\* if (max - min < 30 || max < 40 || max > 240) continue;
Skipped_KeepsGray(r, g, b, a) ==
  \/ a < 200
  \/ Max3(r, g, b) < 40
  \/ Max3(r, g, b) > 240
Skipped(r, g, b, a) ==
  \/ a < 200
  \/ Max3(r, g, b) - Min3(r, g, b) < 30
  \/ Max3(r, g, b) < 40
  \/ Max3(r, g, b) > 240

\* Math.round(c / 8) * 8
Quantize(c) == ((c + 4) \div 8) * 8

\* the sampling loop from pixel i on, every step-th pixel with
\* step = Math.max(1, Math.floor((width * height) / 10000)); the Map keeps
\* its buckets in the order of their insertion
RECURSIVE SampleFrom(_, _, _, _)
SampleFrom(px, h, i, bks) ==
  IF i >= h.width * h.height THEN bks
  ELSE LET step == IF (h.width * h.height) \div 10000 > 1
                     THEN (h.width * h.height) \div 10000 ELSE 1
           base == i * Channels(h)
           r == px[base + 1]
           g == px[base + 2]
           b == px[base + 3]
           a == IF Channels(h) = 4 THEN px[base + 4] ELSE 255
           same(k) == /\ bks[k].r = Quantize(r)
                      /\ bks[k].g = Quantize(g)
                      /\ bks[k].b = Quantize(b)
           voted == IF \E k \in DOMAIN bks : same(k)
                      THEN [k \in DOMAIN bks |->
                              IF same(k) THEN [bks[k] EXCEPT !.count = @ + 1] ELSE bks[k]]
                      ELSE Append(bks, [r |-> Quantize(r), g |-> Quantize(g),
                                        b |-> Quantize(b), count |-> 1])
       IN SampleFrom(px, h, i + step, IF Skipped(r, g, b, a) THEN bks ELSE voted)

\* the inflated bytes, the reconstructed pixels and the buckets of the
\* sampled pixels
DecodePixels ==
  /\ ppc = "format"
  /\ Supported(ihdr)
  /\ InflateOk(Compressed(idatChunks))
  /\ raw' = SubSeq(Compressed(idatChunks), 8, Len(Compressed(idatChunks)) - 4)
  /\ pixels' = Reconstruct(raw', ihdr.height, ihdr.width * Channels(ihdr),
                           Channels(ihdr), <<>>)
  /\ buckets' = SampleFrom(pixels', ihdr, 0, <<>>)
  /\ ppc' = "pick"
  /\ UNCHANGED <<pngBuffer, offset, ihdr, idatChunks, pngResult>>
  /\ UNCHANGED notPngVars

\* if (buckets.size === 0) return { r: 0, g: 0, b: 0 }
ReturnNoBucket ==
  /\ ppc = "pick"
  /\ buckets = <<>>
  /\ pngResult' = <<[kind |-> "ok", err |-> None, value |-> [r |-> 0, g |-> 0, b |-> 0]]>>
  /\ ppc' = "done"
  /\ UNCHANGED <<pngBuffer, offset, ihdr, idatChunks, raw, pixels, buckets>>
  /\ UNCHANGED notPngVars

\* Math.log1p(count) in units of 1/10000, for the counts that occur
Log1p == <<6931, 10986, 13863, 16094>>

\* score = s * Math.log1p(count) with s = (max - min) / (1 - |2 l - 1|),
\* l = (max + min) / 2 and max, min in 1/255: as a fraction,
\* s = (max - min) / (255 - |max + min - 255|)
Score(bk) ==
  LET max == Max3(bk.r, bk.g, bk.b)
      min == Min3(bk.r, bk.g, bk.b)
  IN [num |-> (max - min) * Log1p[bk.count],
      den |-> 255 - (IF max + min >= 255 THEN max + min - 255 ELSE 255 - max - min)]

\* score > bestScore; a zero denominator makes the score Infinity, or NaN
\* when the numerator is zero too, and NaN is greater than nothing
ScoreGreater(s, t) ==
  IF s.den = 0 THEN s.num > 0 /\ t.den # 0
  ELSE IF t.den = 0 THEN FALSE
  ELSE s.num * t.den > t.num * s.den

\* the scoring loop from bucket k on
RECURSIVE BestFrom(_, _, _, _)
BestFrom(bks, k, best, bestScore) ==
  IF k > Len(bks) THEN best
  ELSE IF ScoreGreater(Score(bks[k]), bestScore)
    THEN BestFrom(bks, k + 1, [r |-> bks[k].r, g |-> bks[k].g, b |-> bks[k].b],
                  Score(bks[k]))
    ELSE BestFrom(bks, k + 1, best, bestScore)

\* let best = { r: 128, g: 128, b: 128 }; let bestScore = -1; ... return best
ReturnBest ==
  /\ ppc = "pick"
  /\ buckets # <<>>
  /\ pngResult' =
       <<[kind |-> "ok", err |-> None,
          value |-> BestFrom(buckets, 1, [r |-> 128, g |-> 128, b |-> 128],
                             [num |-> -1, den |-> 1])]>>
  /\ ppc' = "done"
  /\ UNCHANGED <<pngBuffer, offset, ihdr, idatChunks, raw, pixels, buckets>>
  /\ UNCHANGED notPngVars

\* the four bytes view.getUint32 reads n from
U32(n) == <<(n \div 16777216) % 256, (n \div 65536) % 256, (n \div 256) % 256, n % 256>>

\* the raw (inflated) streams of the last n pixels of an image with rows of
\* w pixels: a filter byte 0 .. 5 before the first pixel of a row, then the
\* bytes of the pixels
RECURSIVE RawImages(_, _, _)
RawImages(pixelSet, w, n) ==
  IF n = 0 THEN {<<>>}
  ELSE {(IF n % w = 0 THEN <<f>> ELSE <<>>) \o p \o rest :
          f \in 0..5, p \in pixelSet, rest \in RawImages(pixelSet, w, n - 1)}

\* the buffers drawn: the PNG files of RGB and RGBA images of one to three
\* pixels, files of formats that are refused, and one file cut short at
\* every length, extended by bytes that are no chunk, or with chunks missing,
\* split or added
PngBuffers ==
  LET signature == <<137, 80, 78, 71, 13, 10, 26, 10>>
      \* length, type, data and a CRC, which the parser never reads
      chunk(type, data) == U32(Len(data)) \o type \o data \o <<0, 0, 0, 0>>
      header(w, h, bitDepth, colorType) ==
        chunk(TypeCodes.IHDR, U32(w) \o U32(h) \o <<bitDepth, colorType, 0, 0, 0>>)
      \* a zlib stream of one stored block
      zlib(bytes) ==
        <<120, 1, 1, Len(bytes) % 256, Len(bytes) \div 256,
          (65535 - Len(bytes)) % 256, (65535 - Len(bytes)) \div 256>>
        \o bytes \o U32(AdlerFrom(bytes, 1, 1, 0))
      idat(bytes) == chunk(TypeCodes.IDAT, bytes)
      iend == chunk(TypeCodes.IEND, <<>>)
      png(w, h, bitDepth, colorType, rawBytes) ==
        signature \o header(w, h, bitDepth, colorType) \o idat(zlib(rawBytes)) \o iend
      rgb == {<<200, 100, 0>>, <<40, 100, 200>>, <<100, 100, 100>>, <<0, 0, 0>>,
              <<250, 250, 250>>}
      rgba == {p \o <<a>> : p \in {<<200, 100, 0>>, <<40, 100, 200>>, <<100, 100, 100>>},
                            a \in {255, 100}}
      one == <<0, 200, 100, 0>>
      supported ==
        UNION { {png(sz[1], sz[2], 8, 2, rw) : rw \in RawImages(rgb, sz[1], sz[1] * sz[2])}
                : sz \in {<<1, 1>>, <<2, 1>>, <<1, 2>>, <<3, 1>>} }
        \cup
        UNION { {png(sz[1], sz[2], 8, 6, rw) : rw \in RawImages(rgba, sz[1], sz[1] * sz[2])}
                : sz \in {<<1, 1>>, <<2, 1>>} }
      refused ==
        {png(1, 1, f[1], f[2], one) :
           f \in {<<16, 2>>, <<16, 6>>, <<8, 0>>, <<8, 3>>, <<8, 4>>, <<1, 0>>}}
      damaged ==
        {SubSeq(png(1, 1, 8, 2, one), 1, n) : n \in 0..Len(png(1, 1, 8, 2, one))}
        \cup {png(1, 1, 8, 2, one) \o tl :
                tl \in {<<0>>, <<0, 0>>, <<0, 0, 0>>, <<0, 0, 0, 0>>}}
        \cup {signature \o header(1, 1, 8, 2) \o idat(zlib(one)) \o tl :
                tl \in {<<>>, <<0>>, <<0, 0, 0>>, <<0, 0, 0, 0>>}}
        \cup {signature \o idat(zlib(one)) \o iend,
              signature \o header(1, 1, 8, 2) \o iend,
              signature \o header(1, 1, 8, 2)
                        \o idat(SubSeq(zlib(one), 1, 6)) \o idat(SubSeq(zlib(one), 7, 15))
                        \o iend,
              signature \o header(1, 1, 8, 2) \o chunk(TypeCodes.tEXt, <<65, 0, 66>>)
                        \o idat(zlib(one)) \o iend,
              png(2, 1, 8, 2, one),
              png(1, 2, 8, 6, one)}
  IN supported \cup refused \cup damaged

\* let offset = 8; let width = 0; let height = 0; let bitDepth = 0;
\* let colorType = 0; const idatChunks = []
InitPng ==
  /\ RequestIdle /\ WrapIdle
  /\ PureIdle("png")
  /\ pngBuffer \in PngBuffers
  /\ offset = 8
  /\ ihdr = [width |-> 0, height |-> 0, bitDepth |-> 0, colorType |-> 0]
  /\ idatChunks = <<>>
  /\ raw = <<>>
  /\ pixels = <<>>
  /\ buckets = <<>>
  /\ pngResult = <<>>
  /\ ppc = "chunks"

NextPng ==
  \/ ReadChunk
  \/ ReadChunkThrows
  \/ ChunkLoopExit
  \/ ReturnUnsupported
  \/ InflateRejects
  \/ DecodePixels
  \/ ReturnNoBucket
  \/ ReturnBest

SpecPng == InitPng /\ [][NextPng]_vars

\* ------------------------------------------------------------------------
\* Properties of vibrantColorFromPng (checked under SpecPng)
\* ------------------------------------------------------------------------

\* C16: vibrantColorFromPng never fails: whatever the bytes of the buffer
\* (cut short, with trailing bytes that are no chunk, without IHDR or
\* without IEND), the call ends by returning an RGB value, never by throwing.
C16_NeverThrows ==
  ppc = "done" => pngResult[1].kind = "ok"

\* the pixel with index i of the reconstructed image
PixelOf(i) ==
  LET n == IF ihdr.colorType = 6 THEN 4 ELSE 3
  IN [r |-> pixels[i * n + 1], g |-> pixels[i * n + 2], b |-> pixels[i * n + 3],
      a |-> IF n = 4 THEN pixels[i * n + 4] ELSE 255]

Survives(px) ==
  /\ px.a >= 200
  /\ Max3(px.r, px.g, px.b) - Min3(px.r, px.g, px.b) >= 30
  /\ Max3(px.r, px.g, px.b) >= 40
  /\ Max3(px.r, px.g, px.b) <= 240

FormatRefused == ihdr.bitDepth # 8 \/ ihdr.colorType \notin {2, 6}

Survivors ==
  IF FormatRefused \/ Len(pixels) = 0 THEN {}
  ELSE {i \in 0..(ihdr.width * ihdr.height - 1) : Survives(PixelOf(i))}

FilteredPairsScoreFinite ==
  \A max \in 0..255 : \A min \in 0..max :
    ~Skipped(max, min, min, 255) =>
      LET bk == [r |-> Quantize(max), g |-> Quantize(min), b |-> Quantize(min),
                 count |-> 1]
      IN /\ Quantize(max) # Quantize(min)
         /\ Score(bk).den > 0
         /\ Score(bk).num > 0

\* C26: the saturation of a bucket never divides by zero: for every pixel
\* that passed the filters the quantized largest and smallest channels
\* differ and the denominator 1 - |2l - 1| is not zero, so every score is a
\* finite number >= 0 and the color returned is one of the buckets.
C26_SaturationNeverDividesByZero ==
  /\ FilteredPairsScoreFinite
  /\ \A k \in DOMAIN buckets :
       /\ Max3(buckets[k].r, buckets[k].g, buckets[k].b)
            # Min3(buckets[k].r, buckets[k].g, buckets[k].b)
       /\ Score(buckets[k]).den > 0
       /\ Score(buckets[k]).num >= 0
  /\ (ppc = "done" /\ buckets # <<>>) =>
       /\ pngResult[1].kind = "ok"
       /\ \E k \in DOMAIN buckets :
            pngResult[1].value = [r |-> buckets[k].r, g |-> buckets[k].g, b |-> buckets[k].b]

\* two buckets, the second of which wins
C26_Witness ==
  /\ ppc = "done"
  /\ Len(buckets) = 2
  /\ pngResult[1].value = [r |-> buckets[2].r, g |-> buckets[2].g, b |-> buckets[2].b]
  /\ \E k \in DOMAIN buckets :
       Max3(buckets[k].r, buckets[k].g, buckets[k].b) = 240

\* ------------------------------------------------------------------------
\* cssRgbToPdfLib(color)
\* A string is the sequence of its characters; a channel handed to pdf-lib's
\* rgb() is kept as its numerator over 255.
\* ------------------------------------------------------------------------
notCssVars == <<requestVars, wrapVars, optVars, layoutVars, pngVars, gradVars, linkVars>>

\* \d, with the value of each digit
Digits ==
  ("0" :> 0) @@ ("1" :> 1) @@ ("2" :> 2) @@ ("3" :> 3) @@ ("4" :> 4) @@
  ("5" :> 5) @@ ("6" :> 6) @@ ("7" :> 7) @@ ("8" :> 8) @@ ("9" :> 9)

\* \s
Spaces == {" ", "\t", "\n"}

\* the index after the longest run of characters of a class that starts at
\* index i: what a greedy \d+, \s* or [..]* takes
RECURSIVE RunEnd(_, _, _)
RunEnd(str, i, class) ==
  IF i <= Len(str) /\ str[i] \in class THEN RunEnd(str, i + 1, class) ELSE i

\* the characters lit at index i of str
Literal(str, i, lit) ==
  /\ i + Len(lit) - 1 <= Len(str)
  /\ SubSeq(str, i, i + Len(lit) - 1) = lit

\* Number(match[n]) of a run of digits
RECURSIVE NumberOf(_)
NumberOf(ds) ==
  IF ds = <<>> THEN 0
  ELSE 10 * NumberOf(SubSeq(ds, 1, Len(ds) - 1)) + Digits[ds[Len(ds)]]

\* /rgba?\((\d+),\s*(\d+),\s*(\d+)/ tried at index i: the three groups, or
\* <<>> when the pattern does not match there.  Each quantifier takes its
\* longest run; giving a character back never lets the rest match, since
\* what follows a run is a character outside the run's class.
RgbMatchAt(str, i) ==
  IF ~Literal(str, i, <<"r", "g", "b">>) THEN <<>>
  ELSE
    LET p0 == IF Literal(str, i + 3, <<"a">>) THEN i + 4 ELSE i + 3
        d1 == p0 + 1
        e1 == RunEnd(str, d1, DOMAIN Digits)
        d2 == RunEnd(str, e1 + 1, Spaces)
        e2 == RunEnd(str, d2, DOMAIN Digits)
        d3 == RunEnd(str, e2 + 1, Spaces)
        e3 == RunEnd(str, d3, DOMAIN Digits)
    IN IF /\ Literal(str, p0, <<"(">>)
          /\ e1 > d1
          /\ Literal(str, e1, <<",">>)
          /\ e2 > d2
          /\ Literal(str, e2, <<",">>)
          /\ e3 > d3
         THEN <<SubSeq(str, d1, e1 - 1), SubSeq(str, d2, e2 - 1), SubSeq(str, d3, e3 - 1)>>
         ELSE <<>>

\* color.match(...): the match at the leftmost index from i on that has one
RECURSIVE RgbMatchFrom(_, _)
RgbMatchFrom(str, i) ==
  IF i > Len(str) THEN <<>>
  ELSE IF RgbMatchAt(str, i) # <<>> THEN RgbMatchAt(str, i)
  ELSE RgbMatchFrom(str, i + 1)

\* rgb(1, 1, 1) without a match, else
\* rgb(Number(match[1]) / 255, Number(match[2]) / 255, Number(match[3]) / 255)
CssRgbToPdfLib(str) ==
  LET match == RgbMatchFrom(str, 1)
  IN IF match = <<>> THEN [r |-> 255, g |-> 255, b |-> 255]
     ELSE [r |-> NumberOf(match[1]), g |-> NumberOf(match[2]), b |-> NumberOf(match[3])]

\* the strings drawn: a lead, a function name, three channels with their
\* separators and a tail, and a few strings of other forms
ColorStrings ==
  {ld \o hd \o c1 \o s1 \o c2 \o s2 \o c3 \o tl :
     ld \in {<<>>, <<"-">>},
     hd \in {<<"r", "g", "b", "(">>, <<"r", "g", "b", "a", "(">>, <<"h", "s", "l", "(">>, <<"r", "g", "b", " ", "(">>},
     c1 \in {<<"0">>, <<"7">>, <<"2", "5", "5">>, <<"3", "0", "0">>},
     s1 \in {<<",">>, <<",", " ">>, <<" ">>},
     c2 \in {<<"0">>, <<"7">>, <<"2", "5", "5">>, <<"3", "0", "0">>},
     s2 \in {<<",">>, <<",", " ">>, <<" ">>},
     c3 \in {<<"0">>, <<"7">>, <<"2", "5", "5">>, <<"3", "0", "0">>},
     tl \in {<<")">>, <<",", " ", "0", ".", "5", ")">>, <<>>}}
  \cup {<<>>, <<"w", "h", "i", "t", "e">>, <<"r", "g", "b", "(", "1", "0", "%", ",", "0", ",", "0", ")">>, <<"r", "g", "b", "(", "1", ".", "5", ",", "2", ",", "3", ")">>, <<"r", "g", "b", "(", "-", "1", ",", "2", ",", "3", ")">>}

InitCss ==
  /\ RequestIdle /\ WrapIdle
  /\ PureIdle("css")
  /\ color \in ColorStrings
  /\ cssResult = <<>>
  /\ csspc = "start"

\* color: cssRgbToPdfLib(backgroundColor)
ConvertColor ==
  /\ csspc = "start"
  /\ cssResult' = <<CssRgbToPdfLib(color)>>
  /\ csspc' = "done"
  /\ UNCHANGED color
  /\ UNCHANGED notCssVars

SpecCss == InitCss /\ [][ConvertColor]_vars

\* ------------------------------------------------------------------------
\* Properties of cssRgbToPdfLib (checked under SpecCss)
\* ------------------------------------------------------------------------

\* C18: for every color string the color returned has its three channels in
\* [0, 1]: white (1, 1, 1) when the string does not match the numeric
\* rgb()/rgba() pattern, channel / 255 otherwise.
C18_ChannelsInUnitRange ==
  csspc = "done" =>
    /\ cssResult[1].r \in 0..255
    /\ cssResult[1].g \in 0..255
    /\ cssResult[1].b \in 0..255

\* ------------------------------------------------------------------------
\* fixGradientTransparency(page): the function evaluated in the page
\* bg is the list of the computed background-image strings of the elements
\* of the document, styleBg what the loop has assigned to
\* el.style.backgroundImage of the elements visited so far (<<>> for none).
\* ------------------------------------------------------------------------
notGradVars == <<requestVars, wrapVars, optVars, layoutVars, pngVars, cssVars, linkVars>>

MaxStops == 3

CharAt(str, i) == IF i >= 1 /\ i <= Len(str) THEN str[i] ELSE ""

\* TRANSPARENT_RE tried at index i: the index after the match, 0 for none.
\*   rgba\(\s*0\s*,\s*0\s*,\s*0\s*,\s*0\s*\)         (a1 .. a8)
\* | rgba\(\s*0\s+0\s+0\s*\/\s*0[^)]*\)              (b1 .. b6)
TransparentEndAt(str, i) ==
  LET a1 == RunEnd(str, i + 5, Spaces)
      a2 == RunEnd(str, a1 + 1, Spaces)
      a3 == RunEnd(str, a2 + 1, Spaces)
      a4 == RunEnd(str, a3 + 1, Spaces)
      a5 == RunEnd(str, a4 + 1, Spaces)
      a6 == RunEnd(str, a5 + 1, Spaces)
      a7 == RunEnd(str, a6 + 1, Spaces)
      a8 == RunEnd(str, a7 + 1, Spaces)
      b1 == RunEnd(str, i + 5, Spaces)
      b2 == RunEnd(str, b1 + 1, Spaces)
      b3 == RunEnd(str, b2 + 1, Spaces)
      b4 == RunEnd(str, b3 + 1, Spaces)
      b5 == RunEnd(str, b4 + 1, Spaces)
      b6 == RunEnd(str, b5 + 1, {str[k] : k \in DOMAIN str} \ {")"})
  IN IF ~Literal(str, i, <<"r", "g", "b", "a", "(">>) THEN 0
     ELSE IF /\ CharAt(str, a1) = "0" /\ CharAt(str, a2) = ","
             /\ CharAt(str, a3) = "0" /\ CharAt(str, a4) = ","
             /\ CharAt(str, a5) = "0" /\ CharAt(str, a6) = ","
             /\ CharAt(str, a7) = "0" /\ CharAt(str, a8) = ")"
       THEN a8 + 1
     ELSE IF /\ CharAt(str, b1) = "0"
             /\ b2 > b1 + 1 /\ CharAt(str, b2) = "0"
             /\ b3 > b2 + 1 /\ CharAt(str, b3) = "0"
             /\ CharAt(str, b4) = "/"
             /\ CharAt(str, b5) = "0"
             /\ CharAt(str, b6) = ")"
       THEN b6 + 1
     ELSE 0

\* TRANSPARENT_RE.test(str) with lastIndex = 0
HasTransparent(str) == \E i \in 1..Len(str) : TransparentEndAt(str, i) # 0

\* bg.includes(lit)
Includes(str, lit) == \E i \in 1..Len(str) : Literal(str, i, lit)

\* colorRe tried at index i: the groups r, g, b and the index after the
\* match, <<>> for no match
\* rgba?\(\s*(\d+)\s*[, ]\s*(\d+)\s*[, ]\s*(\d+)(?:\s*[,/]\s*[\d.]+)?\s*\)
\* sep is \s*[, ]\s* (a run of spaces alone matches, one of its spaces taken
\* by [, ]) and close is (?:\s*[,/]\s*[\d.]+)?\s*\); each gives the index
\* after it, 0 when it does not match
ColorMatchAt(str, i) ==
  IF ~Literal(str, i, <<"r", "g", "b">>) THEN <<>>
  ELSE
    LET sep(k) ==
          LET e == RunEnd(str, k, Spaces)
          IN IF CharAt(str, e) = "," THEN RunEnd(str, e + 1, Spaces)
             ELSE IF \E j \in k..(e - 1) : str[j] = " " THEN e
             ELSE 0
        close(k) ==
          LET e == RunEnd(str, k, Spaces)
              n1 == RunEnd(str, e + 1, Spaces)
              n2 == RunEnd(str, n1, DOMAIN Digits \cup {"."})
              c == RunEnd(str, n2, Spaces)
          IN IF CharAt(str, e) = ")" THEN e + 1
             ELSE IF CharAt(str, e) \in {",", "/"} /\ n2 > n1 /\ CharAt(str, c) = ")"
               THEN c + 1
             ELSE 0
        p0 == IF CharAt(str, i + 3) = "a" THEN i + 4 ELSE i + 3
        d1 == RunEnd(str, p0 + 1, Spaces)
        e1 == RunEnd(str, d1, DOMAIN Digits)
        d2 == IF e1 > d1 THEN sep(e1) ELSE 0
        e2 == IF d2 # 0 THEN RunEnd(str, d2, DOMAIN Digits) ELSE 0
        d3 == IF e2 > d2 THEN sep(e2) ELSE 0
        e3 == IF d3 # 0 THEN RunEnd(str, d3, DOMAIN Digits) ELSE 0
        end == IF e3 > d3 THEN close(e3) ELSE 0
    IN IF CharAt(str, p0) = "(" /\ end # 0
         THEN <<[r |-> SubSeq(str, d1, e1 - 1),
                 g |-> SubSeq(str, d2, e2 - 1),
                 b |-> SubSeq(str, d3, e3 - 1),
                 end |-> end]>>
         ELSE <<>>

\* the loop of colorRe.exec(bg) from index i on, each exec finding the
\* leftmost match at or after lastIndex: the channels of the color
\* tokens that TRANSPARENT_RE does not match, in their order in the string
RECURSIVE OpaqueColorsFrom(_, _, _, _)
OpaqueColorsFrom(str, matches, i, acc) ==
  IF \A j \in i..Len(str) : matches[j] = <<>> THEN acc
  ELSE LET j == CHOOSE h \in i..Len(str) :
                  matches[h] # <<>> /\ \A k \in i..(h - 1) : matches[k] = <<>>
           m == matches[j][1]
           full == SubSeq(str, j, m.end - 1)
       IN OpaqueColorsFrom(str, matches, m.end,
            IF HasTransparent(full) THEN acc ELSE Append(acc, <<m.r, m.g, m.b>>))

\* const opaqueColors, matches[j] being the match of colorRe at index j
OpaqueColors(str) ==
  OpaqueColorsFrom(str, [j \in DOMAIN str |-> ColorMatchAt(str, j)], 1, <<>>)

\* bg.replace(TRANSPARENT_RE, replacement) with the g flag, from index i on:
\* the text up to the leftmost match, the replacement, and so on after it
\* (ends[j] is the index after the match of TRANSPARENT_RE at j, 0 for none)
RECURSIVE ReplaceTransparent(_, _, _, _)
ReplaceTransparent(str, ends, i, replacement) ==
  IF \A j \in i..Len(str) : ends[j] = 0 THEN SubSeq(str, i, Len(str))
  ELSE LET j == CHOOSE h \in i..Len(str) :
                  ends[h] # 0 /\ \A k \in i..(h - 1) : ends[k] = 0
       IN SubSeq(str, i, j - 1) \o replacement
            \o ReplaceTransparent(str, ends, ends[j], replacement)

\* const [r, g, b] = opaqueColors[0];
\* const fixed = bg.replace(TRANSPARENT_RE, `rgba(${r}, ${g}, ${b}, 0)`)
Fixed(str) ==
  LET c == OpaqueColors(str)[1]
  IN ReplaceTransparent(str, [j \in DOMAIN str |-> TransparentEndAt(str, j)], 1,
       <<"r", "g", "b", "a", "(">> \o c[1] \o <<",", " ">> \o c[2] \o <<",", " ">> \o c[3]
       \o <<",", " ", "0", ")">>)

\* the color stops drawn, as Chrome serializes them in a computed value
Stop ==
  [red |-> <<"r", "g", "b", "(", "2", "5", "5", ",", " ", "0", ",", " ", "0", ")">>,
   blue |-> <<"r", "g", "b", "(", "0", ",", " ", "0", ",", " ", "2", "5", "5", ")">>,
   transparent |-> <<"r", "g", "b", "a", "(", "0", ",", " ", "0", ",", " ", "0", ",", " ", "0", ")">>,
   halfBlack |-> <<"r", "g", "b", "a", "(", "0", ",", " ", "0", ",", " ", "0", ",", " ", "0", ".", "5", ")">>,
   transparentRed |-> <<"r", "g", "b", "a", "(", "2", "5", "5", ",", " ", "0", ",", " ", "0", ",", " ", "0", ")">>]

\* linear-gradient(stop, stop, ...)
RECURSIVE GradientOf(_)
GradientOf(stops) ==
  IF Len(stops) = 1 THEN <<"l", "i", "n", "e", "a", "r", "-", "g", "r", "a", "d", "i", "e", "n", "t", "(">> \o stops[1] \o <<")">>
  ELSE LET g == GradientOf(SubSeq(stops, 1, Len(stops) - 1))
       IN SubSeq(g, 1, Len(g) - 1) \o <<",", " ">> \o stops[Len(stops)] \o <<")">>

StopLists == UNION { [1..n -> {Stop[f] : f \in DOMAIN Stop}] : n \in 1..MaxStops }

\* the documents drawn: one element, or two, with the gradients of one to
\* MaxStops stops, "none" and a url() as background-image
Documents ==
  LET backgrounds == {GradientOf(st) : st \in StopLists} \cup {<<"n", "o", "n", "e">>, <<"u", "r", "l", "(", "\"", "a", ".", "p", "n", "g", "\"", ")">>}
  IN {<<b1>> : b1 \in backgrounds}
     \cup {<<b1, b2>> : b1 \in backgrounds,
                        b2 \in {<<"n", "o", "n", "e">>, GradientOf(<<Stop.transparent, Stop.blue>>)}}

InitGradient ==
  /\ RequestIdle /\ WrapIdle
  /\ PureIdle("gradient")
  /\ bg \in Documents
  /\ styleBg = <<>>
  /\ gpc = "loop"

\* the loop is at element Len(styleBg) + 1:
\* if (!bg.includes("gradient") || !TRANSPARENT_RE.test(bg)) continue;
\* if (opaqueColors.length === 0) continue
SkipElement ==
  /\ gpc = "loop"
  /\ Len(styleBg) < Len(bg)
  /\ LET b == bg[Len(styleBg) + 1]
     IN \/ ~Includes(b, <<"g", "r", "a", "d", "i", "e", "n", "t">>)
        \/ ~HasTransparent(b)
        \/ OpaqueColors(b) = <<>>
  /\ styleBg' = Append(styleBg, <<>>)
  /\ UNCHANGED <<bg, gpc>>
  /\ UNCHANGED notGradVars

\* el.style.backgroundImage = fixed
FixElement ==
  /\ gpc = "loop"
  /\ Len(styleBg) < Len(bg)
  /\ LET b == bg[Len(styleBg) + 1]
     IN /\ Includes(b, <<"g", "r", "a", "d", "i", "e", "n", "t">>)
        /\ HasTransparent(b)
        /\ OpaqueColors(b) # <<>>
        /\ styleBg' = Append(styleBg, <<Fixed(b)>>)
  /\ UNCHANGED <<bg, gpc>>
  /\ UNCHANGED notGradVars

\* for (const el of els) is over
GradientLoopEnd ==
  /\ gpc = "loop"
  /\ Len(styleBg) >= Len(bg)
  /\ gpc' = "done"
  /\ UNCHANGED <<bg, styleBg>>
  /\ UNCHANGED notGradVars

NextGradient == SkipElement \/ FixElement \/ GradientLoopEnd

SpecGradient == InitGradient /\ [][NextGradient]_vars

\* ------------------------------------------------------------------------
\* Properties of fixGradientTransparency (checked under SpecGradient)
\* ------------------------------------------------------------------------
TransparentBlue == <<"r", "g", "b", "a", "(", "0", ",", " ", "0", ",", " ", "2", "5", "5", ",", " ", "0", ")">>

IsOpaque(c) == c \in {Stop.red, Stop.blue}
AtAlphaZero(c) == IF c = Stop.red THEN Stop.transparentRed ELSE TransparentBlue

\* the elements the loop has visited, and the stop lists of their gradients
Visited == 1..Len(styleBg)
StopsOf(e) == {st \in StopLists : bg[e] = GradientOf(st)}
OutLists(n) == [1..n -> {Stop[f] : f \in DOMAIN Stop} \cup {TransparentBlue}]

Neighbours(st, k) == {j \in {k - 1, k + 1} : j \in DOMAIN st /\ IsOpaque(st[j])}
Dist(j, k) == IF j >= k THEN j - k ELSE k - j
Nearest(st, k) ==
  {j \in DOMAIN st : IsOpaque(st[j]) /\
     \A i \in DOMAIN st : IsOpaque(st[i]) => Dist(j, k) <= Dist(i, k)}

HasTransparentStop(st) == \E k \in DOMAIN st : st[k] = Stop.transparent

\* what the element's background-image is after the loop visited it
After(e) == IF styleBg[e] = <<>> THEN bg[e] ELSE styleBg[e][1]

\* C19: a background-image without a transparent-black stop is left
\* unmodified; in a gradient, a transparent-black stop next to an opaque
\* stop becomes that opaque stop's r, g, b at alpha 0, and every other stop
\* stays as it was.
C19_AdjacentOpaqueChannels ==
  \A e \in Visited :
    /\ (StopsOf(e) = {}) => styleBg[e] = <<>>
    /\ \A st \in StopsOf(e) :
         IF ~HasTransparentStop(st) THEN styleBg[e] = <<>>
         ELSE \E out \in OutLists(Len(st)) :
                /\ After(e) = GradientOf(out)
                /\ \A k \in DOMAIN st :
                     /\ st[k] # Stop.transparent => out[k] = st[k]
                     /\ (st[k] = Stop.transparent /\ Neighbours(st, k) # {}) =>
                          \E j \in Neighbours(st, k) : out[k] = AtAlphaZero(st[j])

\* C20: in a gradient with several opaque stops every transparent-black
\* stop becomes the r, g, b at alpha 0 of the opaque stop nearest to it in
\* the list of stops.
C20_NearestOpaqueChannels ==
  \A e \in Visited :
    \A st \in StopsOf(e) :
      (HasTransparentStop(st) /\ Cardinality({j \in DOMAIN st : IsOpaque(st[j])}) >= 2) =>
        \E out \in OutLists(Len(st)) :
          /\ After(e) = GradientOf(out)
          /\ \A k \in DOMAIN st :
               st[k] = Stop.transparent =>
                 \E j \in Nearest(st, k) : out[k] = AtAlphaZero(st[j])

\* ------------------------------------------------------------------------
\* addLinkAnnotation(pdfDoc, page, url, rect), on URLs of bounded length
\* over a letter, the single quote and the backslash
\* ------------------------------------------------------------------------
MaxScriptUrlLen == 4

LinkUrls == UNION { [1..n -> {"a", "'", "\\"}] : n \in 0..MaxScriptUrlLen }

InitLink ==
  /\ linkUrl \in LinkUrls
  /\ linkAnnots = <<>>
  /\ lkpc = "args"
  /\ RequestIdle
  /\ WrapIdle
  /\ PureIdle("link")

\* the whole function: the page's Annots is the array of the one annotation
AddLinkAnnotationCall ==
  /\ lkpc = "args"
  /\ linkAnnots' = AddLinkAnnotation(linkUrl)
  /\ lkpc' = "done"
  /\ UNCHANGED linkUrl
  /\ UNCHANGED <<requestVars, wrapVars, optVars, layoutVars, pngVars, cssVars, gradVars>>

SpecLink == InitLink /\ [][AddLinkAnnotationCall]_vars

\* the text between the quotes of app.launchURL('...', true);
Embedded == SubSeq(linkAnnots[1].JS, 16, Len(linkAnnots[1].JS) - 9)

\* the number of backslashes that immediately precede index i
RECURSIVE BackslashesBefore(_, _)
BackslashesBefore(e, i) ==
  IF i > 1 /\ e[i - 1] = "\\" THEN 1 + BackslashesBefore(e, i - 1) ELSE 0

\* \\ read as \ and \' read as ', from left to right
RECURSIVE Unescaped(_)
Unescaped(e) ==
  IF e = <<>> THEN <<>>
  ELSE IF Head(e) = "\\" /\ Len(e) >= 2 /\ e[2] \in {"\\", "'"}
    THEN <<e[2]>> \o Unescaped(SubSeq(e, 3, Len(e)))
  ELSE <<Head(e)>> \o Unescaped(Tail(e))

\* C22: in the text addLinkAnnotation embeds between the quotes of
\* app.launchURL('...'), every single quote is preceded by an odd number of
\* backslashes, so none ends the literal early, and un-escaping the text
\* gives back the URL.
C22_EscapedUrlRoundTrips ==
  lkpc = "done" =>
    /\ Len(linkAnnots) = 1
    /\ LaunchScript(Embedded) = linkAnnots[1].JS
    /\ \A i \in DOMAIN Embedded :
         Embedded[i] = "'" => BackslashesBefore(Embedded, i) % 2 = 1
    /\ Unescaped(Embedded) = linkUrl

C22_Witness ==
  /\ lkpc = "done"
  /\ \E i \in 1..(Len(linkUrl) - 1) : linkUrl[i] = "\\" /\ linkUrl[i + 1] = "'"
  /\ \E i \in DOMAIN linkUrl : linkUrl[i] = "'" /\ BackslashesBefore(linkUrl, i) = 0

====
